---- MODULE Spec2Model ----
(***************************************************************************)
(* Model of gfts: the sandboxed operation server (GftsServer), the MCP     *)
(* client/manager (MCPClient.callTool, McpManager.executeTool) and the     *)
(* dispatch loop (runGenerativeGitFlow).                                   *)
(*                                                                         *)
(* A path string is a sequence of one-character strings, so that the      *)
(* string operations of the code (startsWith, dirname, basename, join,    *)
(* resolve) are computed character by character, as Node's posix path     *)
(* module computes them.                                                   *)
(***************************************************************************)
EXTENDS Integers, Sequences, FiniteSets, TLC

\* ------------------------------------------------------------------------
\* Path strings (Node "path", posix flavour)
\* ------------------------------------------------------------------------
Slash == "/"
DotSeg == <<".">>
DotDotSeg == <<".", ".">>

Last(s) == s[Len(s)]
Front(s) == SubSeq(s, 1, Len(s) - 1)

\* Index of the first "/" of s, Len(s)+1 when there is none.
FirstSlash(s) ==
  IF \E i \in 1..Len(s) : s[i] = Slash
  THEN CHOOSE i \in 1..Len(s) : s[i] = Slash /\ \A j \in 1..(i - 1) : s[j] # Slash
  ELSE Len(s) + 1

\* The non-empty segments of a path string.
RECURSIVE Split(_)
Split(s) ==
  IF s = <<>> THEN <<>>
  ELSE LET i == FirstSlash(s)
           head == SubSeq(s, 1, i - 1)
           rest == SubSeq(s, i + 1, Len(s))
       IN (IF head = <<>> THEN <<>> ELSE <<head>>) \o Split(rest)

\* Segments joined with "/" (no leading slash).
RECURSIVE JoinSegs(_)
JoinSegs(segs) ==
  IF segs = <<>> THEN <<>>
  ELSE IF Len(segs) = 1 THEN segs[1]
  ELSE segs[1] \o <<Slash>> \o JoinSegs(Tail(segs))

\* normalizeString: drops "." segments, lets ".." remove the segment before
\* it; above the root ".." is dropped (allowAbove = FALSE) or kept.
RECURSIVE NormalizeSegs(_, _, _)
NormalizeSegs(segs, acc, allowAbove) ==
  IF segs = <<>> THEN acc
  ELSE LET h == Head(segs)
           t == Tail(segs)
       IN IF h = DotSeg THEN NormalizeSegs(t, acc, allowAbove)
          ELSE IF h = DotDotSeg
               THEN IF acc # <<>> /\ Last(acc) # DotDotSeg
                    THEN NormalizeSegs(t, Front(acc), allowAbove)
                    ELSE IF allowAbove
                         THEN NormalizeSegs(t, Append(acc, h), allowAbove)
                         ELSE NormalizeSegs(t, acc, allowAbove)
               ELSE NormalizeSegs(t, Append(acc, h), allowAbove)

IsAbsolute(s) == s # <<>> /\ s[1] = Slash

\* The absolute path string of a list of segments.
AbsString(segs) == <<Slash>> \o JoinSegs(segs)

\* path.resolve(from, to), from absolute: an absolute `to` overrides `from`.
PathResolve(from, to) ==
  LET raw == IF IsAbsolute(to) THEN to ELSE from \o <<Slash>> \o to
  IN AbsString(NormalizeSegs(Split(raw), <<>>, FALSE))

\* String.prototype.startsWith
StartsWith(s, prefix) ==
  Len(s) >= Len(prefix) /\ SubSeq(s, 1, Len(prefix)) = prefix

\* path.dirname: the text before the last "/" that is followed by a
\* non-slash character, scanning from the right and never looking at index 0.
PathDirname(p) ==
  IF p = <<>> THEN DotSeg
  ELSE LET hasRoot == p[1] = Slash
           \* positions (1-based) >= 2 holding a non-slash character
           nonSlash == {i \in 2..Len(p) : p[i] # Slash}
           lastNon == IF nonSlash = {} THEN 0
                      ELSE CHOOSE i \in nonSlash : \A j \in nonSlash : j <= i
           cuts == {i \in 2..Len(p) : p[i] = Slash /\ i < lastNon}
           end == IF cuts = {} THEN 0
                  ELSE CHOOSE i \in cuts : \A j \in cuts : j <= i
       IN IF end = 0 THEN (IF hasRoot THEN <<Slash>> ELSE DotSeg)
          ELSE IF hasRoot /\ end = 2 THEN <<Slash, Slash>>
          ELSE SubSeq(p, 1, end - 1)

\* path.basename: the last segment, trailing slashes ignored.
PathBasename(p) ==
  LET nonSlash == {i \in 1..Len(p) : p[i] # Slash}
      end == IF nonSlash = {} THEN 0
             ELSE CHOOSE i \in nonSlash : \A j \in nonSlash : j <= i
      cuts == {i \in 1..Len(p) : p[i] = Slash /\ i < end}
      start == IF cuts = {} THEN 1
               ELSE 1 + CHOOSE i \in cuts : \A j \in cuts : j <= i
  IN IF end = 0 THEN <<>> ELSE SubSeq(p, start, end)

\* path.join(a, b) for an absolute, normalized a: normalize(a + "/" + b).
PathJoin(a, b) ==
  LET raw == IF b = <<>> THEN a ELSE a \o <<Slash>> \o b
  IN AbsString(NormalizeSegs(Split(raw), <<>>, FALSE))

\* ------------------------------------------------------------------------
\* The file system the server's fs calls act on
\* ------------------------------------------------------------------------
\* A file system is a function from the absolute paths that exist (lists of
\* segments, <<>> is "/") to nodes: a directory, a regular file with its
\* content, or a symbolic link with the path it points to.
DirNode == [kind |-> "dir"]
FileNode(c) == [kind |-> "file", content |-> c]
LinkNode(t) == [kind |-> "link", target |-> t]

IsPrefix(a, b) == Len(a) <= Len(b) /\ SubSeq(b, 1, Len(a)) = a

Has(f, p) == p \in DOMAIN f
IsDir(f, p) == Has(f, p) /\ f[p].kind = "dir"
IsFile(f, p) == Has(f, p) /\ f[p].kind = "file"
IsLink(f, p) == Has(f, p) /\ f[p].kind = "link"

\* The location a path names once the symbolic links among its components,
\* the last one included, are followed (link targets are canonical paths).
RECURSIVE CanonWalk(_, _, _)
CanonWalk(f, segs, cur) ==
  IF segs = <<>> THEN cur
  ELSE LET nxt == Append(cur, Head(segs))
       IN IF IsLink(f, nxt) THEN CanonWalk(f, Tail(segs), f[nxt].target)
          ELSE CanonWalk(f, Tail(segs), nxt)

Canon(f, p) == CanonWalk(f, p, <<>>)

\* As Canon, but the last component is not followed (lstat, unlink, rename).
LCanon(f, p) == IF p = <<>> THEN <<>> ELSE Append(Canon(f, Front(p)), Last(p))

Children(f, d) == {p \in DOMAIN f : Len(p) = Len(d) + 1 /\ IsPrefix(d, p)}
Subtree(f, d) == {p \in DOMAIN f : IsPrefix(d, p)}

\* The names of a set of sibling paths in readdir order (sorted; names of the
\* model differ in their first character or are prefixes of one another).
CharRank(c) ==
  CASE c = "." -> 0 [] c = "a" -> 1 [] c = "b" -> 2 [] c = "i" -> 3
    [] c = "k" -> 4 [] c = "l" -> 5 [] c = "o" -> 6 [] c = "w" -> 7
    [] c = "x" -> 8 [] OTHER -> 9

RECURSIVE NameLess(_, _)
NameLess(a, b) ==
  IF a = <<>> THEN b # <<>>
  ELSE IF b = <<>> THEN FALSE
  ELSE IF a[1] = b[1] THEN NameLess(Tail(a), Tail(b))
  ELSE CharRank(a[1]) < CharRank(b[1])

RECURSIVE SortNames(_)
SortNames(S) ==
  IF S = {} THEN <<>>
  ELSE LET m == CHOOSE x \in S : \A y \in S \ {x} : NameLess(x, y)
       IN <<m>> \o SortNames(S \ {m})

\* fs.readdirSync(d) of an existing directory d (canonical).
Readdir(f, d) == SortNames({Last(p) : p \in Children(f, d)})

\* fs.existsSync / fs.statSync follow links.
ExistsSync(f, p) == Has(f, Canon(f, p))
StatIsDirectory(f, p) == IsDir(f, Canon(f, p))
StatIsFile(f, p) == IsFile(f, Canon(f, p))

\* fs.mkdirSync(p, {recursive: true}): creates the missing directories of p
\* one by one; a component that is a regular file (or a link to something
\* that is not a directory) stops it with an error, the directories made
\* before that stay.
RECURSIVE MkdirWalk(_, _, _, _)
MkdirWalk(f, segs, cur, made) ==
  IF segs = <<>> THEN [ok |-> TRUE, err |-> "", fs |-> f, made |-> made]
  ELSE LET nxt == Append(cur, Head(segs))
       IN IF ~Has(f, nxt)
          THEN MkdirWalk(f @@ (nxt :> DirNode), Tail(segs), nxt, made \cup {nxt})
          ELSE IF IsDir(f, nxt) THEN MkdirWalk(f, Tail(segs), nxt, made)
          ELSE IF IsLink(f, nxt) /\ IsDir(f, f[nxt].target)
               THEN MkdirWalk(f, Tail(segs), f[nxt].target, made)
          ELSE [ok |-> FALSE,
                err |-> IF Len(segs) = 1 THEN "EEXIST" ELSE "ENOTDIR",
                fs |-> f, made |-> made]

\* Variant of MkdirSync without {recursive: true}: an existing path is an
\* error.
MkdirSyncExclusive(f, p) ==
  IF Has(f, Canon(f, p)) THEN [ok |-> FALSE, err |-> "EEXIST", fs |-> f, made |-> {}]
  ELSE MkdirWalk(f, p, <<>>, {})

MkdirSync(f, p) == MkdirWalk(f, p, <<>>, {})

\* The "utf-8" encoding of a string and the decoding of a file's bytes.
\* A string is a sequence of UTF-16 code units: "hi" and "lo" stand for a
\* high and a low surrogate, "rep" for U+FFFD, any other unit for itself.
\* A surrogate pair is one code point (bytes "f0.."); a surrogate without
\* its partner is written as the bytes of U+FFFD ("efbfbd").
RECURSIVE Utf8Encode(_)
Utf8Encode(c) ==
  IF c = <<>> THEN <<>>
  ELSE IF Len(c) >= 2 /\ c[1] = "hi" /\ c[2] = "lo"
       THEN <<"f0..">> \o Utf8Encode(Tail(Tail(c)))
  ELSE IF c[1] \in {"hi", "lo", "rep"} THEN <<"efbfbd">> \o Utf8Encode(Tail(c))
  ELSE <<c[1]>> \o Utf8Encode(Tail(c))

RECURSIVE Utf8Decode(_)
Utf8Decode(b) ==
  IF b = <<>> THEN <<>>
  ELSE IF b[1] = "f0.." THEN <<"hi", "lo">> \o Utf8Decode(Tail(b))
  ELSE IF b[1] = "efbfbd" THEN <<"rep">> \o Utf8Decode(Tail(b))
  ELSE <<b[1]>> \o Utf8Decode(Tail(b))

\* fs.writeFileSync(p, c) and fs.appendFileSync(p, c): follow a final link,
\* need the parent directory, refuse a directory.
PutFile(f, p, c, append) ==
  LET t == Canon(f, p)
  IN IF t = <<>> \/ IsDir(f, t) THEN [ok |-> FALSE, err |-> "EISDIR", fs |-> f, at |-> t]
     ELSE IF ~IsDir(f, Front(t))
          THEN [ok |-> FALSE,
                err |-> IF Has(f, Front(t)) THEN "ENOTDIR" ELSE "ENOENT",
                fs |-> f, at |-> t]
     ELSE LET old == IF append /\ IsFile(f, t) THEN f[t].content ELSE <<>>
          IN [ok |-> TRUE, err |-> "",
              fs |-> [q \in DOMAIN f \cup {t} |->
                        IF q = t THEN FileNode(old \o Utf8Encode(c)) ELSE f[q]],
              at |-> t]

\* fs.unlinkSync(p): removes the directory entry p itself (a link, not its
\* target).
UnlinkSync(f, p) ==
  LET t == LCanon(f, p)
  IN IF ~Has(f, t) THEN [ok |-> FALSE, err |-> "ENOENT", fs |-> f, at |-> t]
     ELSE IF IsDir(f, t) THEN [ok |-> FALSE, err |-> "EISDIR", fs |-> f, at |-> t]
     ELSE [ok |-> TRUE, err |-> "", fs |-> [q \in DOMAIN f \ {t} |-> f[q]], at |-> t]

\* Variant of RmSync that empties a directory and leaves the directory.
RmSyncContentsOnly(f, p) ==
  LET t == LCanon(f, p)
      gone == IF IsDir(f, t) THEN Subtree(f, t) \ {t} ELSE {}
  IN [ok |-> TRUE, err |-> "", fs |-> [q \in DOMAIN f \ gone |-> f[q]],
      at |-> t, gone |-> gone]

\* fs.rmSync(p, {recursive: true, force: true}): removes the entry p and
\* everything below it; a link is removed, not followed; a missing path is
\* not an error (force).
RmSync(f, p) ==
  LET t == LCanon(f, p)
      gone == IF IsDir(f, t) THEN Subtree(f, t) ELSE IF Has(f, t) THEN {t} ELSE {}
  IN [ok |-> TRUE, err |-> "", fs |-> [q \in DOMAIN f \ gone |-> f[q]],
      at |-> t, gone |-> gone]

\* fs.renameSync(src, dst) (POSIX rename): neither final component is
\* followed; the whole subtree of src moves.
RenameSync(f, src, dst) ==
  LET s == LCanon(f, src)
      d == LCanon(f, dst)
      fail(e) == [ok |-> FALSE, err |-> e, fs |-> f, from |-> s, to |-> d]
      moved == [q \in (DOMAIN f \ (Subtree(f, s) \cup {d}))
                      \cup {d \o SubSeq(k, Len(s) + 1, Len(k)) : k \in Subtree(f, s)} |->
                  IF IsPrefix(d, q) /\ (s \o SubSeq(q, Len(d) + 1, Len(q))) \in Subtree(f, s)
                  THEN f[s \o SubSeq(q, Len(d) + 1, Len(q))]
                  ELSE f[q]]
  IN IF ~Has(f, s) THEN fail("ENOENT")
     ELSE IF s = <<>> \/ d = <<>> THEN fail("EBUSY")
     ELSE IF ~IsDir(f, Front(d))
          THEN fail(IF Has(f, Front(d)) THEN "ENOTDIR" ELSE "ENOENT")
     ELSE IF s = d THEN [ok |-> TRUE, err |-> "", fs |-> f, from |-> s, to |-> d]
     ELSE IF IsDir(f, s) /\ IsPrefix(s, d) THEN fail("EINVAL")
     ELSE IF IsPrefix(d, s) THEN fail(IF IsDir(f, s) THEN "ENOTEMPTY" ELSE "EISDIR")
     ELSE IF Has(f, d) /\ IsDir(f, s) /\ ~IsDir(f, d) THEN fail("ENOTDIR")
     ELSE IF Has(f, d) /\ IsDir(f, s) /\ Children(f, d) # {} THEN fail("ENOTEMPTY")
     ELSE IF Has(f, d) /\ ~IsDir(f, s) /\ IsDir(f, d) THEN fail("EISDIR")
     ELSE [ok |-> TRUE, err |-> "", fs |-> moved, from |-> s, to |-> d]

\* ------------------------------------------------------------------------
\* GftsServer
\* ------------------------------------------------------------------------
\* process.cwd() of the session, which is also the directory the server is
\* constructed with: "/w".  "/wx" is a sibling directory whose name has the
\* working directory's string as a prefix.
Cwd == <<"/", "w">>
SiblingDir == <<<<"w", "x">>>>

\* GftsServer.workingDirectory after the constructor.
WorkingRoot == PathResolve(Cwd, Cwd)
RootSegs == Split(WorkingRoot)

\* Containment by path components: p is the root or below it.
Inside(p) == IsPrefix(RootSegs, p)

\* getSafePath: resolve against the working directory, then compare strings.
GetSafePathWith(root, targetPathStr) ==
  LET targetPath == PathResolve(root, targetPathStr)
  IN [denied |-> ~StartsWith(targetPath, root), path |-> targetPath]

GetSafePath(targetPathStr) == GetSafePathWith(WorkingRoot, targetPathStr)

\* Results.  form tells the shape of the returned value:
\*   "Success"    a "Successfully ..." message
\*   "Listing"    the entry names of a directory, "EmptyDir" the text
\*                "Directory is empty.", "Tree" the lines of a tree
\*   "Content"    a file's content
\*   "Mapping"    name -> content, "Info" the {info: ...} object
\*   "ErrorColon" a string starting with "Error: "
\*   "ErrorVerb"  a string "Error <doing> '<path>': <message>" built in a catch
\*   "ErrorObject" an {error: ...} object
\*   "Text"       the working directory string
Ok(form, payload) == [ok |-> TRUE, form |-> form, kind |-> "None", payload |-> payload]
Err(form, kind) == [ok |-> FALSE, form |-> form, kind |-> kind, payload |-> <<>>]
Caught(kind) == Err("ErrorVerb", kind)

FsCall(fn, paths) == [fn |-> fn, paths |-> paths]
Outcome(f, r, calls, acted) ==
  [fs |-> f, result |-> r, calls |-> calls, acted |-> acted, spawned |-> {}]
Denied(f) == Outcome(f, Caught("AccessDenied"), <<>>, {})

listFiles(f, dirPath) ==
  LET sp == GetSafePath(dirPath)
      p == Split(sp.path)
      c1 == <<FsCall("existsSync", <<sp.path>>)>>
      c2 == Append(c1, FsCall("statSync", <<sp.path>>))
      c3 == Append(c2, FsCall("readdirSync", <<sp.path>>))
      files == Readdir(f, Canon(f, p))
  IN IF sp.denied THEN Denied(f)
     ELSE IF ~ExistsSync(f, p) THEN Outcome(f, Err("ErrorColon", "NotFound"), c1, {})
     ELSE IF ~StatIsDirectory(f, p)
          THEN Outcome(f, Err("ErrorColon", "NotADirectory"), c2, {})
     ELSE Outcome(f, IF files = <<>> THEN Ok("EmptyDir", <<>>) ELSE Ok("Listing", files),
                  c3, {Canon(f, p)})

readFile(f, filePath) ==
  LET sp == GetSafePath(filePath)
      p == Split(sp.path)
      c1 == <<FsCall("existsSync", <<sp.path>>)>>
      c2 == Append(c1, FsCall("statSync", <<sp.path>>))
      c3 == Append(c2, FsCall("readFileSync", <<sp.path>>))
  IN IF sp.denied THEN Denied(f)
     ELSE IF ~ExistsSync(f, p) THEN Outcome(f, Err("ErrorColon", "NotAFile"), c1, {})
     ELSE IF ~StatIsFile(f, p) THEN Outcome(f, Err("ErrorColon", "NotAFile"), c2, {})
     ELSE Outcome(f, Ok("Content", Utf8Decode(f[Canon(f, p)].content)), c3,
                  {Canon(f, p)})

\* writeFile and appendFile differ in the last fs call only.
PutFileOp(f, filePath, content, append) ==
  LET sp == GetSafePath(filePath)
      p == Split(sp.path)
      dir == PathDirname(sp.path)
      mk == MkdirSync(f, Split(dir))
      pf == PutFile(mk.fs, p, content, append)
      c1 == <<FsCall("mkdirSync", <<dir>>)>>
      c2 == Append(c1, FsCall(IF append THEN "appendFileSync" ELSE "writeFileSync",
                              <<sp.path>>))
  IN IF sp.denied THEN Denied(f)
     ELSE IF ~mk.ok THEN Outcome(mk.fs, Caught(mk.err), c1, mk.made)
     ELSE IF ~pf.ok THEN Outcome(mk.fs, Caught(pf.err), c2, mk.made)
     ELSE Outcome(pf.fs, Ok("Success", <<>>), c2, mk.made \cup {pf.at})

writeFile(f, filePath, content) == PutFileOp(f, filePath, content, FALSE)
appendFile(f, filePath, content) == PutFileOp(f, filePath, content, TRUE)

\* The destination moveFile hands to renameSync.
MoveDestination(safeDestParent, destination) ==
  PathJoin(safeDestParent, PathBasename(destination))

\* Variant of moveFile that checks the destination after renaming.
moveFileCheckLast(f, source, destination) ==
  LET ss == GetSafePath(source)
      dp == GetSafePath(PathDirname(destination))
      safeDestination == MoveDestination(dp.path, destination)
      rn == RenameSync(f, Split(ss.path), Split(safeDestination))
      c1 == <<FsCall("renameSync", <<ss.path, safeDestination>>)>>
      landed == {rn.to \o SubSeq(k, Len(rn.from) + 1, Len(k)) : k \in Subtree(f, rn.from)}
  IN IF ss.denied THEN Denied(f)
     ELSE IF ~rn.ok THEN Outcome(f, Caught(rn.err), c1, {})
     ELSE IF dp.denied THEN Denied(rn.fs)
     ELSE Outcome(rn.fs, Ok("Success", <<>>), c1, Subtree(f, rn.from) \cup landed)

moveFile(f, source, destination) ==
  LET ss == GetSafePath(source)
      dp == GetSafePath(PathDirname(destination))
      safeDestination == MoveDestination(dp.path, destination)
      rn == RenameSync(f, Split(ss.path), Split(safeDestination))
      c1 == <<FsCall("renameSync", <<ss.path, safeDestination>>)>>
      landed == {rn.to \o SubSeq(k, Len(rn.from) + 1, Len(k)) : k \in Subtree(f, rn.from)}
  IN IF ss.denied \/ dp.denied THEN Denied(f)
     ELSE IF ~rn.ok THEN Outcome(f, Caught(rn.err), c1, {})
     ELSE Outcome(rn.fs, Ok("Success", <<>>), c1, Subtree(f, rn.from) \cup landed)

deleteFile(f, filePath) ==
  LET sp == GetSafePath(filePath)
      p == Split(sp.path)
      ul == UnlinkSync(f, p)
      c1 == <<FsCall("existsSync", <<sp.path>>)>>
      c2 == Append(c1, FsCall("statSync", <<sp.path>>))
      c3 == Append(c2, FsCall("unlinkSync", <<sp.path>>))
  IN IF sp.denied THEN Denied(f)
     ELSE IF ~ExistsSync(f, p) THEN Outcome(f, Err("ErrorColon", "NotAFile"), c1, {})
     ELSE IF ~StatIsFile(f, p) THEN Outcome(f, Err("ErrorColon", "NotAFile"), c2, {})
     ELSE IF ~ul.ok THEN Outcome(f, Caught(ul.err), c3, {})
     ELSE Outcome(ul.fs, Ok("Success", <<>>), c3, {ul.at})

createDirectory(f, dirPath) ==
  LET sp == GetSafePath(dirPath)
      mk == MkdirSync(f, Split(sp.path))
      c1 == <<FsCall("mkdirSync", <<sp.path>>)>>
  IN IF sp.denied THEN Denied(f)
     ELSE IF ~mk.ok THEN Outcome(mk.fs, Caught(mk.err), c1, mk.made)
     ELSE Outcome(mk.fs, Ok("Success", <<>>), c1, mk.made)

deleteDirectory(f, dirPath) ==
  LET sp == GetSafePath(dirPath)
      p == Split(sp.path)
      rm == RmSync(f, p)
      c1 == <<FsCall("existsSync", <<sp.path>>)>>
      c2 == Append(c1, FsCall("statSync", <<sp.path>>))
      c3 == Append(c2, FsCall("rmSync", <<sp.path>>))
  IN IF sp.denied THEN Denied(f)
     ELSE IF ~ExistsSync(f, p) THEN Outcome(f, Err("ErrorColon", "NotADirectory"), c1, {})
     ELSE IF ~StatIsDirectory(f, p)
          THEN Outcome(f, Err("ErrorColon", "NotADirectory"), c2, {})
     ELSE Outcome(rm.fs, Ok("Success", <<>>), c3, rm.gone)

\* A line written as that of a file whatever the entry is.
TreeLineOfEntry(depth, name, dir) == [indent |-> 4 * depth, name |-> name, dir |-> FALSE]

\* A line of the tree: `${indent}${name}/` for a directory, `${indent}${name}`
\* otherwise, indent being 4 spaces per level.
TreeLine(depth, name, dir) == [indent |-> 4 * depth, name |-> name, dir |-> dir]

\* A test that follows the link, as fs.statSync(entryPath).isDirectory().
StatFollowsLink(f, entry) == IsDir(f, Canon(f, entry))

\* entry.isDirectory() of a Dirent read with withFileTypes: the type of the
\* directory entry itself, so false for a symbolic link to a directory.
DirentIsDirectory(f, entry) == IsDir(f, entry)

\* buildTree: the line of the directory, then its entries in readdir order;
\* an entry the Dirent reports as a directory is descended into (a symbolic
\* link is not a directory for a Dirent), any other entry is one line.
RECURSIVE buildTree(_, _, _, _)
RECURSIVE buildEntries(_, _, _, _)
buildTree(f, cur, name, depth) ==
  <<TreeLine(depth, name, TRUE)>> \o buildEntries(f, cur, Readdir(f, cur), depth)

buildEntries(f, cur, names, depth) ==
  IF names = <<>> THEN <<>>
  ELSE LET entry == Append(cur, Head(names))
       IN (IF DirentIsDirectory(f, entry)
           THEN buildTree(f, Canon(f, entry), Head(names), depth + 1)
           ELSE <<TreeLine(depth + 1, Head(names), FALSE)>>)
          \o buildEntries(f, cur, Tail(names), depth)

\* The descent paths of buildTree from the directory path ends in: the
\* canonical directories of the nested buildTree calls, outermost first.  A
\* path is followed until it enters a directory it already holds.
HasRepeat(path) == \E i, j \in DOMAIN path : i < j /\ path[i] = path[j]

RECURSIVE DescentPaths(_, _)
DescentPaths(f, path) ==
  {path} \cup
  UNION {LET into == Append(path, Canon(f, c))
         IN IF HasRepeat(into) THEN {into} ELSE DescentPaths(f, into) :
           c \in {e \in Children(f, Last(path)) : DirentIsDirectory(f, e)}}

\* buildTree has no end when a descent path enters a directory again: the
\* calls nest until the stack is exhausted and the RangeError is caught.
Recurs(f, cur) == \E path \in DescentPaths(f, <<cur>>) : HasRepeat(path)

TreeDirs(f, cur) == {Last(path) : path \in DescentPaths(f, <<cur>>)}

listDirectoryTree(f, dirPath) ==
  LET sp == GetSafePath(dirPath)
      p == Split(sp.path)
      c1 == <<FsCall("existsSync", <<sp.path>>)>>
      c2 == Append(c1, FsCall("readdirSync", <<sp.path>>))
  IN IF sp.denied THEN Denied(f)
     ELSE IF ~ExistsSync(f, p) THEN Outcome(f, Err("ErrorColon", "NotFound"), c1, {})
     ELSE IF ~StatIsDirectory(f, p) THEN Outcome(f, Caught("ENOTDIR"), c2, {})
     ELSE IF Recurs(f, Canon(f, p))
          THEN Outcome(f, Caught("RangeError"), c2, TreeDirs(f, Canon(f, p)))
     ELSE Outcome(f, Ok("Tree", buildTree(f, Canon(f, p), PathBasename(sp.path), 0)),
                  c2, TreeDirs(f, Canon(f, p)))

\* The object returned for a directory without a readable file:
\* {info: "No readable files found in directory."}.
InfoKey == <<"i", "n", "f", "o">>
NoFilesText == <<"No readable files found in directory.">>
InfoObject == (InfoKey :> NoFilesText)

readDirectoryFiles(f, dirPath) ==
  LET sp == GetSafePath(dirPath)
      p == Split(sp.path)
      d == Canon(f, p)
      c1 == <<FsCall("existsSync", <<sp.path>>)>>
      c2 == Append(c1, FsCall("statSync", <<sp.path>>))
      c3 == Append(c2, FsCall("readdirSync", <<sp.path>>))
      entries == Children(f, d)
      \* statSync(entryPath) throws on a link whose target is missing
      dangling == {e \in entries : ~Has(f, Canon(f, e))}
      regular == {e \in entries : IsFile(f, Canon(f, e))}
      fileContents == [n \in {Last(e) : e \in regular} |->
                         Utf8Decode(f[Canon(f, Append(d, n))].content)]
  IN IF sp.denied THEN Outcome(f, Err("ErrorObject", "AccessDenied"), <<>>, {})
     ELSE IF ~ExistsSync(f, p) THEN Outcome(f, Err("ErrorObject", "NotADirectory"), c1, {})
     ELSE IF ~StatIsDirectory(f, p)
          THEN Outcome(f, Err("ErrorObject", "NotADirectory"), c2, {})
     ELSE IF dangling # {} THEN Outcome(f, Err("ErrorObject", "ENOENT"), c3, {d})
     ELSE Outcome(f, IF regular = {} THEN Ok("Info", InfoObject)
                     ELSE Ok("Mapping", fileContents),
                  c3, {d} \cup {Canon(f, e) : e \in regular})

getCurrentDirectory(f) == Outcome(f, Ok("Text", WorkingRoot), <<>>, {})

\* How execSync ends (the environment's choice): it returns the output of a
\* process that exited with 0, or it throws an error err.  When the process
\* exited with a code other than 0, err.status is that code.  When it was
\* killed by a signal or could not be spawned, err.status is null or
\* undefined.  When the output exceeded maxBuffer (ENOBUFS) the process is
\* killed unless it has exited already, so err.status is null or the exit
\* code, which may be 0.
ExecReturns == [threw |-> FALSE, hasStatus |-> TRUE, status |-> 0]
ExecThrows(hasStatus, status) == [threw |-> TRUE, hasStatus |-> hasStatus, status |-> status]
ExecSyncOutcomes ==
  {ExecReturns, ExecThrows(TRUE, 1), ExecThrows(FALSE, 0), ExecThrows(TRUE, 0)}

\* The two outcomes told apart by the callers that only need them: exit
\* with 0, exit with 1.
ExecSync(exitOk) == IF exitOk THEN ExecReturns ELSE ExecThrows(TRUE, 1)

\* return_code: err.status ?? 1
ReturnCode(ex) == IF ex.hasStatus THEN ex.status ELSE 1

\* runGitCommand: execSync(`git ${command}`, {cwd: workingDirectory}); an
\* error thrown by execSync is returned as data.
Spawn(by, cwd, commandLine) == [by |-> by, cwd |-> cwd, commandLine |-> commandLine]

runGitCommand(f, command, ex) ==
  [fs |-> f,
   result |-> [ok |-> ~ex.threw, form |-> "GitResult",
               kind |-> IF ex.threw THEN "CommandFailed" ELSE "None",
               payload |-> IF ex.threw
                           THEN [stdout |-> "", stderr |-> "err.message",
                                 return_code |-> ReturnCode(ex)]
                           ELSE [stdout |-> "output", stderr |-> "", return_code |-> 0]],
   calls |-> <<>>, acted |-> {},
   spawned |-> {Spawn("GftsServer.runGitCommand", WorkingRoot, <<"git">> \o command)}]

\* ------------------------------------------------------------------------
\* Inputs
\* ------------------------------------------------------------------------
\* Candidate path strings handed to the operations.
PDot == <<".">>
PUp == <<".", ".">>
PA == <<"a">>
PAA == <<"a", "/", "a">>
PAUp == <<"a", "/", ".", ".">>
PSibling == <<".", ".", "/", "w", "x", "/", "a">>
PAbsolute == <<"/", "o">>
PViaLink == <<"l", "/", "a">>

PathInputs == {PDot, PUp, PA, PAA, PAUp, PSibling, PAbsolute, PViaLink}
SourceInputs == {PA, PAA, PSibling, PUp}
ContentInputs == {<<"c">>}
GitInputs == {<<"status">>, <<"push">>}

\* Bounds of the explored file systems: the deepest path and the longest
\* file content an operation may produce.
MaxDepth == 3
MaxContentLen == 2

WithinBounds(f) ==
  \A q \in DOMAIN f :
     /\ Len(q) <= MaxDepth
     /\ f[q].kind = "file" => Len(f[q].content) <= MaxContentLen

\* ------------------------------------------------------------------------
\* State
\* ------------------------------------------------------------------------
VARIABLES
  fs,         \* the file system
  fs0,        \* the file system when the session or server started
  last,       \* the latest server operation: name, arguments, result, the fs
              \* calls it made, the canonical paths it acted on, the
              \* processes it spawned
  pc,         \* where runGenerativeGitFlow stands
  dryRun,     \* its dryRun parameter
  response,   \* the latest response of the completion service
  request,    \* the latest request sent to the completion service
  toolOutput, \* toolOutput of the latest turn
  handed,     \* the latest {name, arguments} handed to client.callTool
  mgr,        \* McpManager's client and server fields
  thrown,     \* the error runGenerativeGitFlow threw, "none" if none
  nSent,      \* requests sent to the completion service
  nExec,      \* executeTool invocations
  turn,       \* tool outputs produced (turns completed)
  mgrCalls,   \* the calls of initializeClient and closeClient, in order
  outstanding, \* requests awaited: by the completion service, by the server
  wrap,       \* the promise, timer and operation of a wrapWithTimeout call
  prev,       \* the operation before the latest one and the file system it
              \* left, when the caller issued the two in succession
  repo,       \* the git repository of the working directory: changed files
              \* not staged, staged files, commits made, commits pushed
  commit,     \* the commit command that runs or ran: its revision, its
              \* arguments, the git commands it ran, the step that failed,
              \* what it printed, the repository it started on
  sess,       \* the runGenerativeGitFlow sessions of the process that share
              \* the McpManager: where each stands, the directory it gave,
              \* the client it was handed, what its executeTool calls found
  srv         \* a server object: its revision, the constructor's argument,
              \* process.cwd(), its workingDirectory field

serverVars == <<fs, fs0, last>>
loopVars == <<pc, dryRun, response, request, toolOutput, handed, mgr, thrown,
              nSent, nExec, turn, mgrCalls, outstanding>>
vars == <<fs, fs0, last, pc, dryRun, response, request, toolOutput, handed, mgr,
          thrown, nSent, nExec, turn, mgrCalls, outstanding, wrap, prev, repo, commit, sess, srv>>

NoOp == [op |-> "none", args |-> <<>>, result |-> Ok("None", <<>>),
         calls |-> <<>>, acted |-> {}, spawned |-> {}]

Entry(p, node) == (p :> node)
WSegs == <<<<"w">>>>
LinkPath == <<<<"w">>, <<"l">>>>

\* The file systems a server can be started on: the working directory /w
\* and its sibling /wx exist; /w may hold a symbolic link l -> /wx and a
\* file a; /wx may hold a file a.
BaseFs == Entry(<<>>, DirNode) @@ Entry(WSegs, DirNode) @@ Entry(SiblingDir, DirNode)

InitialFileSystems ==
  {BaseFs @@ lnk @@ fa @@ sa :
     lnk \in {<<>>, Entry(LinkPath, LinkNode(SiblingDir))},
     fa \in {<<>>, Entry(Append(WSegs, <<"a">>), FileNode(<<"c">>))},
     sa \in {<<>>, Entry(Append(SiblingDir, <<"a">>), FileNode(<<"c">>))}}

\* Values of the dispatch loop's variables before anything happened.
NoResponse == [kind |-> "none"]
NoRequest == [contents |-> <<>>]
NoOutput == [kind |-> "none"]
NoCall == [name |-> "none", arguments |-> <<>>]
NoManager == [client |-> "null", server |-> "null"]
NoneOutstanding == [model |-> 0, tool |-> 0]
NoPrev == [call |-> NoOp, fs |-> <<>>]
NoWrap == [promise |-> "none", timer |-> "none", operation |-> "none",
           timeoutMs |-> 0, elapsed |-> 0, tick |-> 0, command |-> <<>>,
           exits |-> TRUE]

\* A repository without changes, and no commit command.
NoSessions == [of |-> <<>>, made |-> 0, connects |-> 0, cleared |-> "none", closer |-> 0]
NoServer == [rev |-> "none", arg |-> <<>>, cwd |-> <<>>, workingDirectory |-> <<>>]
CleanRepo == [worktree |-> {}, staged |-> {}, commits |-> 0, pushed |-> 0]
NoCommit ==
  [rev |-> "none", command |-> "none", skipPush |-> FALSE, failed |-> "none",
   printed |-> FALSE, before |-> CleanRepo,
   message |-> [type |-> "none", printable |-> TRUE, chars |-> <<>>],
   ran |-> <<>>, manualCalled |-> FALSE]

LoopAtRest ==
  /\ response = NoResponse
  /\ request = NoRequest
  /\ toolOutput = NoOutput
  /\ handed = NoCall
  /\ mgr = NoManager
  /\ thrown = "none"
  /\ nSent = 0
  /\ nExec = 0
  /\ turn = 0
  /\ mgrCalls = <<>>
  /\ outstanding = NoneOutstanding
  /\ wrap = NoWrap
  /\ prev = NoPrev
  /\ repo = CleanRepo
  /\ commit = NoCommit
  /\ sess = NoSessions
  /\ srv = NoServer

InitServer ==
  /\ fs \in InitialFileSystems
  /\ fs0 = fs
  /\ last = NoOp
  /\ pc = "NotStarted"
  /\ dryRun = FALSE
  /\ LoopAtRest

\* One server operation applied to the file system.
Perform(op, args, out) ==
  /\ WithinBounds(out.fs)
  /\ fs' = out.fs
  /\ last' = [op |-> op, args |-> args, result |-> out.result, calls |-> out.calls,
              acted |-> out.acted, spawned |-> out.spawned]
  /\ UNCHANGED <<fs0, wrap, prev, repo, commit, sess, srv>>

\* The server's methods are async: the operation runs to its end when the
\* method is called, and the promise made by wrapWithTimeout then hands the
\* result to the awaiting caller.  A caller issues its next call after that.
Idle == last.op = "none"

ListFiles ==
  /\ Idle
  /\ \E p \in PathInputs : Perform("listFiles", <<p>>, listFiles(fs, p))
  /\ UNCHANGED loopVars
ReadFile ==
  /\ Idle
  /\ \E p \in PathInputs : Perform("readFile", <<p>>, readFile(fs, p))
  /\ UNCHANGED loopVars
WriteFile ==
  /\ Idle
  /\ \E p \in PathInputs, c \in ContentInputs :
        Perform("writeFile", <<p, c>>, writeFile(fs, p, c))
  /\ UNCHANGED loopVars
AppendFile ==
  /\ Idle
  /\ \E p \in PathInputs, c \in ContentInputs :
        Perform("appendFile", <<p, c>>, appendFile(fs, p, c))
  /\ UNCHANGED loopVars
MoveFile ==
  /\ Idle
  /\ \E s \in SourceInputs, d \in PathInputs :
        Perform("moveFile", <<s, d>>, moveFile(fs, s, d))
  /\ UNCHANGED loopVars
DeleteFile ==
  /\ Idle
  /\ \E p \in PathInputs : Perform("deleteFile", <<p>>, deleteFile(fs, p))
  /\ UNCHANGED loopVars
CreateDirectory ==
  /\ Idle
  /\ \E p \in PathInputs : Perform("createDirectory", <<p>>, createDirectory(fs, p))
  /\ UNCHANGED loopVars
DeleteDirectory ==
  /\ Idle
  /\ \E p \in PathInputs : Perform("deleteDirectory", <<p>>, deleteDirectory(fs, p))
  /\ UNCHANGED loopVars
ListDirectoryTree ==
  /\ Idle
  /\ \E p \in PathInputs : Perform("listDirectoryTree", <<p>>, listDirectoryTree(fs, p))
  /\ UNCHANGED loopVars
ReadDirectoryFiles ==
  /\ Idle
  /\ \E p \in PathInputs : Perform("readDirectoryFiles", <<p>>, readDirectoryFiles(fs, p))
  /\ UNCHANGED loopVars
RunGitCommand ==
  /\ Idle
  /\ \E c \in GitInputs, ex \in ExecSyncOutcomes :
        Perform("runGitCommand", <<c>>, runGitCommand(fs, c, ex))
  /\ UNCHANGED loopVars
GetCurrentDirectory ==
  /\ Idle
  /\ Perform("getCurrentDirectory", <<>>, getCurrentDirectory(fs))
  /\ UNCHANGED loopVars

\* wrapWithTimeout's promise settles: the caller has the result.
Settle ==
  /\ ~Idle
  /\ last' = NoOp
  /\ prev' = NoPrev
  /\ UNCHANGED <<fs, fs0, wrap, repo, commit, sess, srv>>
  /\ UNCHANGED loopVars

NextServer ==
  \/ ListFiles \/ ReadFile \/ WriteFile \/ AppendFile \/ MoveFile \/ DeleteFile
  \/ CreateDirectory \/ DeleteDirectory \/ ListDirectoryTree \/ ReadDirectoryFiles
  \/ RunGitCommand \/ GetCurrentDirectory \/ Settle

SpecServer == InitServer /\ [][NextServer]_vars

\* ------------------------------------------------------------------------
\* Two calls in succession on the same path
\* ------------------------------------------------------------------------
\* Contents written: plain text, the empty string, a character outside the
\* basic plane (a surrogate pair), and a string with a lone surrogate, as
\* JSON text with the escape \ud800 gives.
RoundTripContents == {<<"c">>, <<>>, <<"hi", "lo">>, <<"hi">>}

\* A second operation issued as soon as the first has answered.
PerformAfter(op, args, out) ==
  /\ WithinBounds(out.fs)
  /\ fs' = out.fs
  /\ last' = [op |-> op, args |-> args, result |-> out.result, calls |-> out.calls,
              acted |-> out.acted, spawned |-> out.spawned]
  /\ prev' = [call |-> last, fs |-> fs]
  /\ UNCHANGED <<fs0, wrap, repo, commit, sess, srv>>

WriteContent ==
  /\ Idle
  /\ \E p \in PathInputs, c \in RoundTripContents :
       Perform("writeFile", <<p, c>>, writeFile(fs, p, c))
  /\ UNCHANGED loopVars

\* readFile(p) right after writeFile(p, c).
ReadBack ==
  /\ last.op = "writeFile"
  /\ PerformAfter("readFile", <<last.args[1]>>, readFile(fs, last.args[1]))
  /\ UNCHANGED loopVars

\* createDirectory(d) right after createDirectory(d).
CreateAgain ==
  /\ last.op = "createDirectory"
  /\ PerformAfter("createDirectory", last.args, createDirectory(fs, last.args[1]))
  /\ UNCHANGED loopVars

\* After deleteDirectory(d): listFiles(d), or readFile of a file below d.
AfterDelete ==
  /\ last.op = "deleteDirectory"
  /\ \/ PerformAfter("listFiles", last.args, listFiles(fs, last.args[1]))
     \/ LET below == last.args[1] \o <<Slash>> \o PA
        IN PerformAfter("readFile", <<below>>, readFile(fs, below))
  /\ UNCHANGED loopVars

NextPairs ==
  \/ WriteContent \/ CreateDirectory \/ DeleteDirectory
  \/ ReadBack \/ CreateAgain \/ AfterDelete \/ Settle

SpecPairs == InitServer /\ [][NextPairs]_vars

\* ------------------------------------------------------------------------
\* Directories read as a whole
\* ------------------------------------------------------------------------
\* The working directories listDirectoryTree and readDirectoryFiles are
\* called on.  /w may hold
\*   a     a file, or a directory with a file a, which may also hold a
\*         symbolic link k -> /w (a link to a directory above itself);
\*   info  a file, with any text or with the text of the info object;
\*   l     a symbolic link: to the directory /wx, to /w itself, to the file
\*         /wx/a, or to a path that does not exist.
\* /wx holds a file a.
SubDir == Append(WSegs, <<"a">>)
SiblingFile == Append(SiblingDir, <<"a">>)

DirectoryFileSystems ==
  {BaseFs @@ Entry(SiblingFile, FileNode(<<"c">>)) @@ a @@ info @@ lnk :
     a \in {<<>>, Entry(SubDir, FileNode(<<"c">>)),
            Entry(SubDir, DirNode) @@ Entry(Append(SubDir, <<"a">>), FileNode(<<"c">>)),
            Entry(SubDir, DirNode) @@ Entry(Append(SubDir, <<"a">>), FileNode(<<"c">>))
              @@ Entry(Append(SubDir, <<"k">>), LinkNode(WSegs))},
     info \in {<<>>, Entry(Append(WSegs, InfoKey), FileNode(<<"c">>)),
               Entry(Append(WSegs, InfoKey), FileNode(NoFilesText))},
     lnk \in {<<>>} \cup {Entry(LinkPath, LinkNode(t)) :
                            t \in {SiblingDir, WSegs, SiblingFile, <<<<"o">>>>}}}

InitDirectory ==
  /\ fs \in DirectoryFileSystems
  /\ fs0 = fs
  /\ last = NoOp
  /\ pc = "NotStarted"
  /\ dryRun = FALSE
  /\ LoopAtRest

NextDirectory == ListDirectoryTree \/ ReadDirectoryFiles \/ Settle

SpecDirectory == InitDirectory /\ [][NextDirectory]_vars

\* ------------------------------------------------------------------------
\* wrapWithTimeout, step by step
\* ------------------------------------------------------------------------
\* static readonly DEFAULT_TIMEOUT = 120000
DEFAULT_TIMEOUT == 120000

\* Time is counted in ticks of half the default timeout, up to MaxElapsed.
TickMs == DEFAULT_TIMEOUT \div 2
MaxElapsed == 3
TimeoutInputs == {DEFAULT_TIMEOUT, TickMs}

\* The timer set by setTimeout is due.
TimerDue(w) == w.timer = "armed" /\ w.elapsed * TickMs >= w.timeoutMs

\* The executor of the promise starts: setTimeout arms the timer, then
\* operation() is called, here the body of runGitCommand, whose execSync
\* waits for the git process to exit.  The process may never exit.
WrapStart ==
  /\ Idle
  /\ wrap.operation = "none"
  /\ \E command \in GitInputs, timeoutMs \in TimeoutInputs, exits \in BOOLEAN :
       wrap' = [promise |-> "pending", timer |-> "armed", operation |-> "running",
                timeoutMs |-> timeoutMs, elapsed |-> 0, tick |-> 0,
                command |-> command, exits |-> exits]
  /\ UNCHANGED <<fs, fs0, last, prev, repo, commit, sess, srv>>
  /\ UNCHANGED loopVars

\* Time passes while execSync blocks the thread.
TimePasses ==
  /\ wrap.operation = "running"
  /\ wrap' = [wrap EXCEPT !.elapsed = IF @ < MaxElapsed THEN @ + 1 ELSE @,
                          !.tick = 1 - @]
  /\ UNCHANGED <<fs, fs0, last, prev, repo, commit, sess, srv>>
  /\ UNCHANGED loopVars

\* operation() returns: clearTimeout, then resolve(result).  (The body of
\* runGitCommand catches the error of a failed command, so it never throws.)
OperationEnds ==
  /\ wrap.operation = "running"
  /\ wrap.exits
  /\ \E exitOk \in BOOLEAN :
       LET out == runGitCommand(fs, wrap.command, ExecSync(exitOk))
       IN /\ WithinBounds(out.fs)
          /\ fs' = out.fs
          /\ last' = [op |-> "runGitCommand", args |-> <<wrap.command>>,
                      result |-> out.result, calls |-> out.calls,
                      acted |-> out.acted, spawned |-> out.spawned]
  /\ wrap' = [wrap EXCEPT !.operation = "returned", !.timer = "cleared",
                          !.promise = "resolved"]
  /\ UNCHANGED <<fs0, prev, repo, commit, sess, srv>>
  /\ UNCHANGED loopVars

\* The thread is free and the event loop takes its next task: the callback
\* of a due timer, which rejects the promise, or else the continuation of
\* the caller awaiting the settled promise, which may then call again.
EventLoopTurn ==
  /\ wrap.operation = "returned"
  /\ IF TimerDue(wrap)
     THEN /\ wrap' = [wrap EXCEPT !.timer = "fired",
                                  !.promise = IF @ = "pending" THEN "rejected" ELSE @]
          /\ UNCHANGED last
     ELSE /\ wrap' = [wrap EXCEPT !.operation = "none"]
          /\ last' = NoOp
  /\ UNCHANGED <<fs, fs0, prev, repo, commit, sess, srv>>
  /\ UNCHANGED loopVars

NextTimeout == WrapStart \/ TimePasses \/ OperationEnds \/ EventLoopTurn

SpecTimeout == InitServer /\ [][NextTimeout]_vars

\* Time passes, an operation whose process exits returns, and the event
\* loop runs its tasks.
FairSpecTimeout ==
  /\ SpecTimeout
  /\ WF_vars(TimePasses)
  /\ WF_vars(OperationEnds)
  /\ WF_vars(EventLoopTurn)

\* ------------------------------------------------------------------------
\* The methods called with arguments of any JSON type
\* ------------------------------------------------------------------------
\* A value handed to a method: a string, undefined (a parameter the caller
\* left out) or an object parsed from JSON.  `${v}` converts v to a string:
\* undefined gives "undefined", a plain object "[object Object]"; for an
\* object whose own toString property is not a function (JSON
\* {"toString": 1}) the conversion throws a TypeError.
Str(s) == [type |-> "string", printable |-> TRUE, chars |-> s]
Undefined == [type |-> "undefined", printable |-> TRUE, chars |-> <<"undefined">>]
PlainObject == [type |-> "object", printable |-> TRUE, chars |-> <<"[object Object]">>]
OpaqueObject == [type |-> "object", printable |-> FALSE, chars |-> <<>>]

ArgumentValues == {Str(PA), Str(PUp), Undefined, PlainObject, OpaqueObject}

Methods ==
  {"runGitCommand", "listFiles", "readFile", "writeFile", "appendFile", "moveFile",
   "deleteFile", "createDirectory", "deleteDirectory", "listDirectoryTree",
   "readDirectoryFiles"}

\* The path arguments of a call with the values a and b.
PathArguments(op, a, b) == IF op = "moveFile" THEN <<a, b>> ELSE <<a>>

\* How the function handed to wrapWithTimeout ends: it returns out, or it
\* throws.
Completes(out) == [threw |-> FALSE, out |-> out]
Throws(f, error) == [threw |-> TRUE, out |-> Outcome(f, Err("None", error), <<>>, {})]

\* The catch block of a path method that was given a path argument that is
\* no string (path.resolve and path.dirname throw ERR_INVALID_ARG_TYPE in
\* the try): it returns a message built with `${argument}` for each path
\* argument.
CatchBlock(f, op, pathArgs) ==
  IF \E i \in DOMAIN pathArgs : ~pathArgs[i].printable THEN Throws(f, "TypeError")
  ELSE Completes(Outcome(f, Err(IF op = "readDirectoryFiles" THEN "ErrorObject"
                                ELSE "ErrorVerb", "ERR_INVALID_ARG_TYPE"), <<>>, {}))

\* The function a method hands to wrapWithTimeout, for path arguments a and
\* b of any type and a content string.  runGitCommand builds `git ${command}`
\* inside its try and its catch formats nothing.
MethodBody(f, op, a, b, content, exitOk) ==
  IF op = "runGitCommand"
  THEN IF a.type = "string" THEN Completes(runGitCommand(f, a.chars, ExecSync(exitOk)))
       ELSE IF a.printable THEN Completes(runGitCommand(f, a.chars, ExecSync(FALSE)))
       ELSE Completes([runGitCommand(f, <<>>, ExecSync(FALSE)) EXCEPT !.spawned = {}])
  ELSE IF \E i \in DOMAIN PathArguments(op, a, b) : PathArguments(op, a, b)[i].type # "string"
  THEN CatchBlock(f, op, PathArguments(op, a, b))
  ELSE CASE op = "listFiles" -> Completes(listFiles(f, a.chars))
         [] op = "readFile" -> Completes(readFile(f, a.chars))
         [] op = "writeFile" -> Completes(writeFile(f, a.chars, content))
         [] op = "appendFile" -> Completes(appendFile(f, a.chars, content))
         [] op = "moveFile" -> Completes(moveFile(f, a.chars, b.chars))
         [] op = "deleteFile" -> Completes(deleteFile(f, a.chars))
         [] op = "createDirectory" -> Completes(createDirectory(f, a.chars))
         [] op = "deleteDirectory" -> Completes(deleteDirectory(f, a.chars))
         [] op = "listDirectoryTree" -> Completes(listDirectoryTree(f, a.chars))
         [] op = "readDirectoryFiles" -> Completes(readDirectoryFiles(f, a.chars))

\* wrapWithTimeout around a function that ends: clearTimeout, then resolve
\* with what it returned or reject with what it threw.
WrapWithTimeout(body, timeoutMs) ==
  [promise |-> IF body.threw THEN "rejected" ELSE "resolved", timer |-> "cleared",
   operation |-> "returned", timeoutMs |-> timeoutMs, elapsed |-> 0, tick |-> 0,
   command |-> <<>>, exits |-> TRUE]

\* A method is called.
Invoke ==
  /\ Idle
  /\ wrap.operation = "none"
  /\ \E op \in Methods, a \in ArgumentValues :
     \E b \in IF op = "moveFile" THEN ArgumentValues ELSE {a},
        exitOk \in IF op = "runGitCommand" THEN BOOLEAN ELSE {TRUE} :
       LET body == MethodBody(fs, op, a, b, <<"c">>, exitOk)
       IN /\ WithinBounds(body.out.fs)
          /\ fs' = body.out.fs
          /\ last' = [op |-> op, args |-> PathArguments(op, a, b),
                      result |-> body.out.result, calls |-> body.out.calls,
                      acted |-> body.out.acted, spawned |-> body.out.spawned]
          /\ wrap' = WrapWithTimeout(body, DEFAULT_TIMEOUT)
  /\ UNCHANGED <<fs0, prev, repo, commit, sess, srv>>
  /\ UNCHANGED loopVars

NextBoundary == Invoke \/ EventLoopTurn

SpecBoundary == InitServer /\ [][NextBoundary]_vars

\* ------------------------------------------------------------------------
\* ToolCatalogue, McpManager and the dispatch loop (runGenerativeGitFlow)
\* ------------------------------------------------------------------------
\* The names declared in toolDeclarations.
DeclaredTools ==
  {"run_git_command", "list_files", "read_file", "write_file", "move_file",
   "delete_file", "create_directory", "delete_directory", "list_directory_tree",
   "read_directory_files", "get_current_directory"}

\* Arguments are functions from parameter names to strings; <<>> is {}.
HasKey(a, k) == k \in DOMAIN a
Truthy(v) == v # <<>>

\* Turn counters stop counting at MaxTurns.
MaxTurns == 3
Inc(n) == IF n < MaxTurns THEN n + 1 ELSE n

\* Variant of ToolArgs that spreads the model's arguments last, so that a
\* working_directory of the model wins.
ToolArgsModelLast(args) ==
  [k \in DOMAIN args \cup {"working_directory"} |->
     IF HasKey(args, k) THEN args[k] ELSE Cwd]

\* const toolArgs = { ...funcCall.args, working_directory: process.cwd() }
ToolArgs(args) ==
  [k \in DOMAIN args \cup {"working_directory"} |->
     IF k = "working_directory" THEN Cwd ELSE args[k]]

\* executeTool: { ...toolArgs,
\*                working_directory: toolArgs.working_directory || process.cwd() }
ExecArguments(toolArgs) ==
  [k \in DOMAIN toolArgs \cup {"working_directory"} |->
     IF k = "working_directory"
     THEN IF HasKey(toolArgs, k) /\ Truthy(toolArgs[k]) THEN toolArgs[k] ELSE Cwd
     ELSE toolArgs[k]]

\* initializeClient without the test of this.client.
InitializeClientAnew(m, workingDirectory) ==
  [client |-> "client", server |-> PathResolve(Cwd, workingDirectory)]

\* McpManager.initializeClient and closeClient.
InitializeClient(m, workingDirectory) ==
  IF m.client # "null" THEN m
  ELSE [client |-> "client", server |-> PathResolve(Cwd, workingDirectory)]

\* CloseClient that forgets the client and keeps the server.
CloseClientOnly(m) == IF m.client # "null" THEN [m EXCEPT !.client = "null"] ELSE m

CloseClient(m) == IF m.client # "null" THEN NoManager ELSE m

\* The operation the server side of the transport runs for a tool name: the
\* server method of that name with the declared parameters.  A parameter the
\* request lacks is undefined, which path.resolve refuses with a TypeError
\* that the method catches; `git undefined` fails.
BadArgument(f) == Outcome(f, Caught("ERR_INVALID_ARG_TYPE"), <<>>, {})

Dispatch(f, name, a, exitOk) ==
  IF name = "run_git_command"
  THEN IF HasKey(a, "command") THEN runGitCommand(f, a["command"], ExecSync(exitOk))
       ELSE runGitCommand(f, <<"undefined">>, ExecSync(FALSE))
  ELSE IF name = "get_current_directory" THEN getCurrentDirectory(f)
  ELSE IF name = "write_file"
  THEN IF HasKey(a, "path") /\ HasKey(a, "content")
       THEN writeFile(f, a["path"], a["content"]) ELSE BadArgument(f)
  ELSE IF name = "move_file"
  THEN IF HasKey(a, "source") /\ HasKey(a, "destination")
       THEN moveFile(f, a["source"], a["destination"]) ELSE BadArgument(f)
  ELSE IF ~HasKey(a, "path") THEN BadArgument(f)
  ELSE CASE name = "list_files" -> listFiles(f, a["path"])
         [] name = "read_file" -> readFile(f, a["path"])
         [] name = "delete_file" -> deleteFile(f, a["path"])
         [] name = "create_directory" -> createDirectory(f, a["path"])
         [] name = "delete_directory" -> deleteDirectory(f, a["path"])
         [] name = "list_directory_tree" -> listDirectoryTree(f, a["path"])
         [] name = "read_directory_files" -> readDirectoryFiles(f, a["path"])

MethodOf(name) ==
  CASE name = "run_git_command" -> "runGitCommand"
    [] name = "list_files" -> "listFiles"
    [] name = "read_file" -> "readFile"
    [] name = "write_file" -> "writeFile"
    [] name = "move_file" -> "moveFile"
    [] name = "delete_file" -> "deleteFile"
    [] name = "create_directory" -> "createDirectory"
    [] name = "delete_directory" -> "deleteDirectory"
    [] name = "list_directory_tree" -> "listDirectoryTree"
    [] name = "read_directory_files" -> "readDirectoryFiles"
    [] name = "get_current_directory" -> "getCurrentDirectory"

\* executeTool's view of what client.callTool gave back: a string result
\* that includes "Error:" is thrown, anything else returned.  The strings
\* "Error: Path ..." of the methods include it; the strings
\* "Error <doing> ...: <message>" of their catch blocks do not; a file's
\* content includes it when the text "Error:" (one unit of a content here)
\* is in the file.
StringForms == {"Success", "Listing", "EmptyDir", "Tree", "Content", "ErrorColon",
                "ErrorVerb", "Text"}
IncludesErrorColon(r) ==
  \/ r.form = "ErrorColon"
  \/ r.form = "Content" /\ \E i \in DOMAIN r.payload : r.payload[i] = "Error:"

Returned(r) == [threw |-> FALSE, result |-> r, message |-> "none"]
Threw(message) == [threw |-> TRUE, result |-> Ok("None", <<>>), message |-> message]

ExecuteToolResult(r) ==
  IF r.form \in StringForms /\ IncludesErrorColon(r) THEN Threw(r.kind)
  ELSE Returned(r)

\* executeTool's catch: code -32001 becomes the timeout error, other errors
\* are rethrown (the messages of the transport errors match none of the
\* special cases).
TimeoutCode == -32001
TransportErrors == {[code |-> TimeoutCode, message |-> "Request timed out"],
                    [code |-> 0, message |-> "Connection closed"]}

ExecuteToolError(e) ==
  IF e.code = TimeoutCode THEN Threw("Tool execution timed out")
  ELSE Threw(e.message)

\* toolOutput of a turn.
DryRunOutput == [kind |-> "DryRun", result |-> Ok("None", <<>>), message |-> "none"]

OutputOf(x) ==
  IF x.threw THEN [kind |-> "Error", result |-> x.result, message |-> x.message]
  ELSE [kind |-> "Result", result |-> x.result, message |-> "none"]

\* The requests: contents holds the initial prompt and nothing else, in the
\* first request and in the request that follows a tool output alike.
PromptPart == [role |-> "user", kind |-> "text", text |-> "initialPrompt"]
InitialRequest == [contents |-> <<PromptPart>>]
FollowUpRequest(output) == [contents |-> <<PromptPart>>]

\* Responses of the completion service.
Malformed == [kind |-> "malformed", name |-> "", args |-> <<>>]
FinalText == [kind |-> "text", name |-> "", args |-> <<>>]
Call(name, args) == [kind |-> "call", name |-> name, args |-> args]

Arg(k, v) == (k :> v)

ModelCalls ==
  {Call("write_file", Arg("path", PA) @@ Arg("content", <<"c">>)),
   Call("write_file", Arg("path", PA) @@ Arg("content", <<"Error:">>)),
   Call("write_file", <<>>),
   Call("delete_file", Arg("path", PA)),
   Call("read_file", Arg("path", PA)),
   Call("list_files", Arg("path", PUp)),
   Call("run_git_command", Arg("command", <<"status">>)),
   Call("format_disk", <<>>),
   Call("", <<>>)}

\* What the model may put in working_directory: nothing, "", another root.
SuppliedRoots == {<<>>, PAbsolute}

Responses ==
  {Malformed, FinalText} \cup ModelCalls
  \cup {Call(c.name, c.args @@ Arg("working_directory", w)) :
          c \in ModelCalls, w \in SuppliedRoots}

\* while (response?.candidates?.[0]?.content?.parts?.[0]?.functionCall)
HasFunctionCall(r) == r.kind = "call"

\* Variant of SkipsExecution that ignores the flag.
SkipsExecutionNever(dry) == FALSE

\* if (dryRun) { toolOutput = "Dry run mode, command not executed." }
SkipsExecution(dry) == dry

\* Variant of LoopExit that asks the completion service again.
LoopExitAsksAgain == "AwaitingModel"

\* Where the function stands after the loop has ended.
LoopExit == "Done"

\* The awaits of the loop.  `await generateContent(...)` has a request
\* outstanding from the call until the response (or rejection) arrives;
\* `await executeTool(...)` has a call outstanding until it settles.
MaxOutstanding == 2
Sent(o) == [o EXCEPT !.model = IF @ < MaxOutstanding THEN @ + 1 ELSE @]
Answered(o) == [o EXCEPT !.model = IF @ > 0 THEN @ - 1 ELSE @]
HandedOver(o) == [o EXCEPT !.tool = IF @ < MaxOutstanding THEN @ + 1 ELSE @]

\* Variant of Settled in which the loop goes on without the call's result.
SettledNever(o) == o

\* The awaited executeTool (or callTool) promise has settled.
Settled(o) == [o EXCEPT !.tool = IF @ > 0 THEN @ - 1 ELSE @]

Init ==
  /\ fs \in InitialFileSystems
  /\ fs0 = fs
  /\ last = NoOp
  /\ pc = "NotStarted"
  /\ dryRun \in BOOLEAN
  /\ LoopAtRest

\* The first generateContent call.
SendInitialRequest ==
  /\ pc = "NotStarted"
  /\ request' = InitialRequest
  /\ nSent' = Inc(nSent)
  /\ pc' = "Initializing"
  /\ outstanding' = Sent(outstanding)
  /\ UNCHANGED <<fs, fs0, last, dryRun, response, toolOutput, handed, mgr, thrown,
                 nExec, turn, mgrCalls, wrap, prev, repo, commit, sess, srv>>

\* One pass over the loop condition and, if it holds, the loop body up to
\* its first await, for the response r, the manager m and the calls c made
\* on the manager so far.  Leaving the inner try runs closeClient.
LoopIteration(r, m, c) ==
  IF ~HasFunctionCall(r)
  THEN /\ pc' = LoopExit
       /\ mgr' = CloseClient(m)
       /\ mgrCalls' = Append(c, "closeClient")
       /\ outstanding' = Answered(outstanding)
       /\ UNCHANGED <<request, toolOutput, handed, thrown, nSent, nExec, turn>>
  ELSE IF r.name = ""
  THEN /\ pc' = "Failed"
       /\ thrown' = "Invalid function call from model"
       /\ mgr' = CloseClient(m)
       /\ mgrCalls' = Append(c, "closeClient")
       /\ outstanding' = Answered(outstanding)
       /\ UNCHANGED <<request, toolOutput, handed, nSent, nExec, turn>>
  ELSE IF SkipsExecution(dryRun)
  THEN /\ toolOutput' = DryRunOutput
       /\ turn' = Inc(turn)
       /\ request' = FollowUpRequest(DryRunOutput)
       /\ nSent' = Inc(nSent)
       /\ pc' = "AwaitingModel"
       /\ mgr' = m
       /\ mgrCalls' = c
       /\ outstanding' = Sent(Answered(outstanding))
       /\ UNCHANGED <<handed, thrown, nExec>>
  ELSE /\ handed' = [name |-> r.name, arguments |-> ExecArguments(ToolArgs(r.args))]
       /\ nExec' = Inc(nExec)
       /\ pc' = "ExecutingOperation"
       /\ mgr' = m
       /\ mgrCalls' = c
       /\ outstanding' = HandedOver(Answered(outstanding))
       /\ UNCHANGED <<request, toolOutput, thrown, nSent, turn>>

\* What a rejected connect leaves in the manager: client and server were
\* assigned before the connect; the client library may or may not have
\* called the transport's close handler, which clears both.
AfterFailedConnect(m) == {m, NoManager}

\* The first response arrives: shape check, initializeClient (the connect of
\* the client may fail, outside the inner try), then the loop.
FirstResponse ==
  /\ pc = "Initializing"
  /\ \E r \in Responses, connectOk \in BOOLEAN :
       /\ response' = r
       /\ IF r.kind = "malformed"
          THEN /\ pc' = "Failed"
               /\ thrown' = "Failed to generate valid content"
               /\ outstanding' = Answered(outstanding)
               /\ UNCHANGED <<request, toolOutput, handed, mgr, nSent, nExec, turn,
                              mgrCalls>>
          ELSE IF ~connectOk
          THEN /\ pc' = "Failed"
               /\ thrown' = "connect failed"
               /\ mgr' \in AfterFailedConnect(InitializeClient(mgr, Cwd))
               /\ mgrCalls' = Append(mgrCalls, "initializeClient")
               /\ outstanding' = Answered(outstanding)
               /\ UNCHANGED <<request, toolOutput, handed, nSent, nExec, turn>>
          ELSE LoopIteration(r, InitializeClient(mgr, Cwd),
                             Append(mgrCalls, "initializeClient"))
  /\ UNCHANGED <<fs, fs0, last, dryRun, wrap, prev, repo, commit, sess, srv>>

\* A later response arrives.
ModelResponds ==
  /\ pc = "AwaitingModel"
  /\ \E r \in Responses :
       /\ response' = r
       /\ LoopIteration(r, mgr, mgrCalls)
  /\ UNCHANGED <<fs, fs0, last, dryRun, wrap, prev, repo, commit, sess, srv>>

\* generateContent rejects (the completion service failed).
UpstreamFails ==
  /\ pc \in {"Initializing", "AwaitingModel"}
  /\ pc' = "Failed"
  /\ thrown' = "UpstreamFailure"
  /\ mgr' = IF pc = "AwaitingModel" THEN CloseClient(mgr) ELSE mgr
  /\ mgrCalls' = IF pc = "AwaitingModel" THEN Append(mgrCalls, "closeClient")
                 ELSE mgrCalls
  /\ outstanding' = Answered(outstanding)
  /\ UNCHANGED <<fs, fs0, last, dryRun, response, request, toolOutput, handed,
                 nSent, nExec, turn, wrap, prev, repo, commit, sess, srv>>

\* The rest of the loop body once executeTool has settled with x.
AfterExecuteTool(x) ==
  /\ toolOutput' = OutputOf(x)
  /\ turn' = Inc(turn)
  /\ request' = FollowUpRequest(OutputOf(x))
  /\ nSent' = Inc(nSent)
  /\ pc' = "AwaitingModel"
  /\ outstanding' = Sent(Settled(outstanding))
  /\ UNCHANGED <<dryRun, response, handed, mgr, thrown, nExec, mgrCalls>>

\* client.callTool reaches the server, which runs the named operation.
TransportDelivers ==
  /\ pc = "ExecutingOperation"
  /\ handed.name \in DeclaredTools
  /\ \E exitOk \in BOOLEAN :
       LET out == Dispatch(fs, handed.name, handed.arguments, exitOk)
       IN /\ Perform(MethodOf(handed.name), handed.arguments, out)
          /\ AfterExecuteTool(ExecuteToolResult(out.result))

\* client.callTool is given a name the server has no operation for.
TransportRejects ==
  /\ pc = "ExecutingOperation"
  /\ handed.name \notin DeclaredTools
  /\ AfterExecuteTool(ExecuteToolError([code |-> 0, message |-> "Unknown tool"]))
  /\ UNCHANGED <<fs, fs0, last, wrap, prev, repo, commit, sess, srv>>

\* client.callTool fails: request timeout or closed connection.
TransportFails ==
  /\ pc = "ExecutingOperation"
  /\ \E e \in TransportErrors : AfterExecuteTool(ExecuteToolError(e))
  /\ UNCHANGED <<fs, fs0, last, wrap, prev, repo, commit, sess, srv>>

Next ==
  \/ SendInitialRequest \/ FirstResponse \/ ModelResponds \/ UpstreamFails
  \/ TransportDelivers \/ TransportRejects \/ TransportFails

Spec == Init /\ [][Next]_vars

\* Every await of the loop settles: the first request and every later one
\* is answered (or fails), and a pending tool call comes back.  A failing
\* return is possible whenever a call is pending, so weak fairness on
\* TransportFails excludes exactly the behaviours in which a pending call
\* never settles; it does not force the call to fail.
FairSpec ==
  /\ Spec
  /\ WF_vars(SendInitialRequest)
  /\ WF_vars(FirstResponse)
  /\ WF_vars(ModelResponds)
  /\ WF_vars(TransportFails)

\* ------------------------------------------------------------------------
\* The dispatch loop of index.ts: a client of its own instead of McpManager,
\* no try around callTool, the name checked only outside dry run
\* ------------------------------------------------------------------------
\* await client.callTool(...) threw: nothing catches it, the function ends.
IndexCallToolThrew(e) ==
  /\ pc' = "Failed"
  /\ thrown' = e.message
  /\ outstanding' = Settled(outstanding)
  /\ UNCHANGED <<dryRun, response, request, toolOutput, handed, mgr, nSent, nExec,
                 turn, mgrCalls>>

IndexLoopIteration(r) ==
  IF ~HasFunctionCall(r)
  THEN /\ pc' = LoopExit
       /\ outstanding' = Answered(outstanding)
       /\ UNCHANGED <<request, toolOutput, handed, thrown, nSent, nExec, turn>>
  ELSE IF SkipsExecution(dryRun)
  THEN /\ toolOutput' = DryRunOutput
       /\ turn' = Inc(turn)
       /\ request' = FollowUpRequest(DryRunOutput)
       /\ nSent' = Inc(nSent)
       /\ pc' = "AwaitingModel"
       /\ outstanding' = Sent(Answered(outstanding))
       /\ UNCHANGED <<handed, thrown, nExec>>
  ELSE IF r.name = ""
  THEN /\ pc' = "Failed"
       /\ thrown' = "Invalid tool name"
       /\ outstanding' = Answered(outstanding)
       /\ UNCHANGED <<request, toolOutput, handed, nSent, nExec, turn>>
  ELSE /\ handed' = [name |-> r.name, arguments |-> ToolArgs(r.args)]
       /\ nExec' = Inc(nExec)
       /\ pc' = "ExecutingOperation"
       /\ outstanding' = HandedOver(Answered(outstanding))
       /\ UNCHANGED <<request, toolOutput, thrown, nSent, turn>>

\* The first response: shape check, client.connect, then the loop.
IndexFirstResponse ==
  /\ pc = "Initializing"
  /\ \E r \in Responses, connectOk \in BOOLEAN :
       /\ response' = r
       /\ IF r.kind = "malformed"
          THEN /\ pc' = "Failed"
               /\ thrown' = "Failed to generate valid content"
               /\ outstanding' = Answered(outstanding)
               /\ UNCHANGED <<request, toolOutput, handed, nSent, nExec, turn>>
          ELSE IF ~connectOk
          THEN /\ pc' = "Failed"
               /\ thrown' = "connect failed"
               /\ outstanding' = Answered(outstanding)
               /\ UNCHANGED <<request, toolOutput, handed, nSent, nExec, turn>>
          ELSE IndexLoopIteration(r)
  /\ UNCHANGED <<fs, fs0, last, dryRun, mgr, mgrCalls, wrap, prev, repo, commit, sess, srv>>

IndexModelResponds ==
  /\ pc = "AwaitingModel"
  /\ \E r \in Responses :
       /\ response' = r
       /\ IndexLoopIteration(r)
  /\ UNCHANGED <<fs, fs0, last, dryRun, mgr, mgrCalls, wrap, prev, repo, commit, sess, srv>>

IndexUpstreamFails ==
  /\ pc \in {"Initializing", "AwaitingModel"}
  /\ pc' = "Failed"
  /\ thrown' = "UpstreamFailure"
  /\ outstanding' = Answered(outstanding)
  /\ UNCHANGED <<fs, fs0, last, dryRun, response, request, toolOutput, handed, mgr,
                 nSent, nExec, turn, mgrCalls, wrap, prev, repo, commit, sess, srv>>

\* client.callTool resolves with the result of the server's operation.
IndexCallToolReturns ==
  /\ pc = "ExecutingOperation"
  /\ handed.name \in DeclaredTools
  /\ \E exitOk \in BOOLEAN :
       LET out == Dispatch(fs, handed.name, handed.arguments, exitOk)
       IN /\ Perform(MethodOf(handed.name), handed.arguments, out)
          /\ AfterExecuteTool(Returned(out.result))

\* client.callTool rejects: unknown tool, request timeout, closed connection.
IndexCallToolThrows ==
  /\ pc = "ExecutingOperation"
  /\ \E e \in TransportErrors \cup {[code |-> 0, message |-> "Unknown tool"]} :
       /\ handed.name \notin DeclaredTools => e.message = "Unknown tool"
       /\ IndexCallToolThrew(e)
  /\ UNCHANGED <<fs, fs0, last, wrap, prev, repo, commit, sess, srv>>

NextIndex ==
  \/ SendInitialRequest \/ IndexFirstResponse \/ IndexModelResponds
  \/ IndexUpstreamFails \/ IndexCallToolReturns \/ IndexCallToolThrows

SpecIndex == Init /\ [][NextIndex]_vars

\* ------------------------------------------------------------------------
\* The single-tool runGenerativeGitFlow(toolName, toolArgs, dryRun)
\* ------------------------------------------------------------------------
\* The function ends: finally { await mcpClient.closeClient() }.
SingleEnds(m, c, to) ==
  /\ pc' = to
  /\ mgr' = CloseClient(m)
  /\ mgrCalls' = Append(c, "closeClient")

\* The call: initializeClient inside the try, then the dry-run placeholder
\* or the first executeTool.  `response` holds the requested tool and its
\* arguments.
SingleStart ==
  /\ pc = "NotStarted"
  /\ \E call \in ModelCalls, connectOk \in BOOLEAN :
       /\ response' = call
       /\ IF ~connectOk
          THEN /\ \E m \in AfterFailedConnect(InitializeClient(mgr, Cwd)) :
                    SingleEnds(m, Append(mgrCalls, "initializeClient"), "Failed")
               /\ thrown' = "connect failed"
               /\ UNCHANGED <<toolOutput, handed, nExec, turn, outstanding>>
          ELSE IF SkipsExecution(dryRun)
          THEN /\ SingleEnds(InitializeClient(mgr, Cwd),
                             Append(mgrCalls, "initializeClient"), LoopExit)
               /\ toolOutput' = DryRunOutput
               /\ turn' = Inc(turn)
               /\ UNCHANGED <<handed, thrown, nExec, outstanding>>
          ELSE /\ pc' = "ExecutingOperation"
               /\ mgr' = InitializeClient(mgr, Cwd)
               /\ mgrCalls' = Append(mgrCalls, "initializeClient")
               /\ handed' = [name |-> call.name, arguments |-> ExecArguments(call.args)]
               /\ nExec' = Inc(nExec)
               /\ outstanding' = HandedOver(outstanding)
               /\ UNCHANGED <<toolOutput, thrown, turn>>
  /\ UNCHANGED <<fs, fs0, last, dryRun, request, nSent, wrap, prev, repo, commit, sess, srv>>

\* After an executeTool that settled with x: the first is followed by
\* "Finished executeTool" and a second executeTool of the same call, the
\* second by the output and the end of the function; an error leaves the
\* try for the catch.
SingleAfterExecuteTool(x) ==
  IF nExec = 1 /\ ~x.threw
  THEN /\ nExec' = Inc(nExec)
       /\ outstanding' = HandedOver(Settled(outstanding))
       /\ UNCHANGED <<pc, dryRun, response, request, toolOutput, handed, mgr, thrown,
                      nSent, turn, mgrCalls>>
  ELSE /\ toolOutput' = OutputOf(x)
       /\ turn' = Inc(turn)
       /\ outstanding' = Settled(outstanding)
       /\ SingleEnds(mgr, mgrCalls, LoopExit)
       /\ UNCHANGED <<dryRun, response, request, handed, thrown, nSent, nExec>>

SingleExecuteDelivers ==
  /\ pc = "ExecutingOperation"
  /\ handed.name \in DeclaredTools
  /\ \E exitOk \in BOOLEAN :
       LET out == Dispatch(fs, handed.name, handed.arguments, exitOk)
       IN /\ Perform(MethodOf(handed.name), handed.arguments, out)
          /\ SingleAfterExecuteTool(ExecuteToolResult(out.result))

SingleExecuteFails ==
  /\ pc = "ExecutingOperation"
  /\ \E e \in TransportErrors \cup {[code |-> 0, message |-> "Unknown tool"]} :
       /\ handed.name \notin DeclaredTools => e.message = "Unknown tool"
       /\ SingleAfterExecuteTool(ExecuteToolError(e))
  /\ UNCHANGED <<fs, fs0, last, wrap, prev, repo, commit, sess, srv>>

NextSingleTool == SingleStart \/ SingleExecuteDelivers \/ SingleExecuteFails

SpecSingleTool == Init /\ [][NextSingleTool]_vars

\* ------------------------------------------------------------------------
\* MCPClient.callTool and the single-instruction flow that uses it
\* ------------------------------------------------------------------------
\* An instruction text, by what callTool's parsing finds in it:
\*   tool, hasParameters, parameters  the JSON reading (tool "" when the text
\*                is not JSON or has no tool)
\*   gitPrefix, gitRest  whether /^git\s/ matches, and the rest of the text
\*   mentions     the declared tools whose name, with spaces, occurs in it
\*   captured     for the tools whose regular expression matches, the groups
\*   text         the text itself
\*   opaque       the parameters whose JSON value is an object that has no
\*                string form, as {"toString": 1}
Instruction(tool, hasParameters, parameters, gitPrefix, gitRest, mentions, captured, text) ==
  [tool |-> tool, hasParameters |-> hasParameters, parameters |-> parameters,
   gitPrefix |-> gitPrefix, gitRest |-> gitRest, mentions |-> mentions,
   captured |-> captured, text |-> text, opaque |-> {}]

JsonInstruction(tool, parameters) ==
  Instruction(tool, TRUE, parameters, FALSE, <<>>, {}, <<>>, <<"json", tool>>)
JsonObjectInstruction(tool, parameters) ==
  [JsonInstruction(tool, parameters) EXCEPT !.opaque = DOMAIN parameters,
                                            !.text = <<"json", tool, "object">>]
GitInstruction(rest) ==
  Instruction("", FALSE, <<>>, TRUE, rest, {}, <<>>, <<"git">> \o rest)
PhraseInstruction(mentions, captured, text) ==
  Instruction("", FALSE, <<>>, FALSE, <<>>, mentions, captured, text)

Instructions ==
  {JsonInstruction("write_file", Arg("path", PA) @@ Arg("content", <<"c">>)),
   JsonInstruction("delete_file", Arg("path", PA)),
   JsonInstruction("list_files", Arg("path", PDot)),
   JsonInstruction("read_file", Arg("path", PA)),
   JsonInstruction("append_file", Arg("path", PA) @@ Arg("content", <<"c">>)),
   JsonInstruction("run_git_command", Arg("command", <<"status">>)),
   JsonInstruction("get_current_directory", Arg("unused", <<"x">>)),
   JsonInstruction("format_disk", Arg("path", PA)),
   JsonObjectInstruction("delete_file", Arg("path", <<>>)),
   JsonObjectInstruction("run_git_command", Arg("command", <<>>)),
   GitInstruction(<<"status">>),
   PhraseInstruction({"delete_file"}, Arg("delete_file", <<PA>>), <<"delete file a">>),
   PhraseInstruction({"write_file"}, Arg("write_file", <<PA, <<"c">>>>),
                     <<"write file: write a with content 'c'">>),
   PhraseInstruction({"list_files", "delete_file"}, Arg("delete_file", <<PA>>),
                     <<"list files, then delete file a">>),
   PhraseInstruction({"list_files"}, <<>>, <<"list files">>),
   PhraseInstruction({"create_directory"}, Arg("create_directory", <<PAA>>),
                     <<"create directory a/a">>),
   PhraseInstruction({"move_file"}, Arg("move_file", <<PA, PAA>>),
                     <<"move file: move a to a/a">>),
   PhraseInstruction({}, <<>>, <<"rm -rf ../wx">>),
   PhraseInstruction({}, <<>>, <<"ls">>)}

\* The order of toolDeclarations.
CatalogueOrder ==
  <<"run_git_command", "list_files", "read_file", "write_file", "move_file",
    "delete_file", "create_directory", "delete_directory", "list_directory_tree",
    "read_directory_files", "get_current_directory">>

\* The cases of the switch over parsed.tool, and of the switch over
\* tool.name in the phrase fallback.
JsonCases ==
  {"run_git_command", "write_file", "append_file", "move_file", "delete_file",
   "create_directory", "delete_directory", "list_files", "list_directory_tree",
   "read_directory_files", "get_current_directory"}
PhraseCases ==
  {"write_file", "append_file", "move_file", "delete_file", "create_directory",
   "delete_directory", "list_files"}

ServerMethod == "server"
ShellCommand == "shell"
NoEffect == "none"

\* What callTool does for an instruction: the route taken and, for a server
\* method, the tool and its arguments.
Route(via, tool, a) == [via |-> via, tool |-> tool, arguments |-> a]

\* The first declared tool that the text mentions and whose case returns.
RECURSIVE FirstPhraseMatch(_, _)
FirstPhraseMatch(ins, names) ==
  IF names = <<>> THEN ""
  ELSE IF Head(names) \in ins.mentions /\ Head(names) \in PhraseCases
          /\ HasKey(ins.captured, Head(names))
       THEN Head(names)
       ELSE FirstPhraseMatch(ins, Tail(names))

PhraseArguments(tool, groups) ==
  CASE tool \in {"write_file", "append_file"} ->
         Arg("path", groups[1]) @@ Arg("content", groups[2])
    [] tool = "move_file" -> Arg("source", groups[1]) @@ Arg("destination", groups[2])
    [] OTHER -> Arg("path", groups[1])

CallToolRoute(ins, dry) ==
  LET structured == ins.tool # "" /\ ins.hasParameters
      mentioned == \E n \in DeclaredTools : n \in ins.mentions
      phrase == FirstPhraseMatch(ins, CatalogueOrder)
  IN IF structured /\ ins.tool \notin DeclaredTools THEN Route(NoEffect, "unknown", <<>>)
     ELSE IF structured /\ dry THEN Route(NoEffect, "dry", <<>>)
     ELSE IF structured /\ ins.tool \in JsonCases
          THEN Route(ServerMethod, ins.tool, ins.parameters)
     ELSE IF ins.gitPrefix
          THEN IF dry THEN Route(NoEffect, "dry", <<>>)
               ELSE Route(ServerMethod, "run_git_command", Arg("command", ins.gitRest))
     ELSE IF mentioned /\ dry THEN Route(NoEffect, "dry", <<>>)
     ELSE IF phrase # ""
          THEN Route(ServerMethod, phrase, PhraseArguments(phrase, ins.captured[phrase]))
     ELSE IF dry THEN Route(NoEffect, "dry", <<>>)
     ELSE Route(ShellCommand, "execSync", <<>>)

\* What a shell command may leave of the file system: anything the process
\* can reach; here it leaves it alone or empties the sibling directory.
ShellEffects(f) ==
  {f, [q \in DOMAIN f \ (Subtree(f, SiblingDir) \ {SiblingDir}) |-> f[q]]}

InitCallTool ==
  /\ fs \in InitialFileSystems
  /\ fs0 = fs
  /\ last = NoOp
  /\ pc = "NotStarted"
  /\ dryRun \in BOOLEAN
  /\ LoopAtRest

\* The request of processWithGemini: one user part whose text holds the
\* working directory, the user's instruction and the rule "Respect dry-run
\* mode: ..." that is worded after dryRun.
InstructionRequest(dry) ==
  [contents |-> <<[role |-> "user", kind |-> "text",
                   text |-> IF dry THEN "instruction; simulate changes"
                            ELSE "instruction; apply all changes directly"]>>]

\* processWithGemini returns the generated instruction text.
GeminiProduces ==
  /\ pc = "NotStarted"
  /\ \E ins \in Instructions :
       response' = [kind |-> "instruction", instruction |-> ins]
  /\ request' = InstructionRequest(dryRun)
  /\ nSent' = Inc(nSent)
  /\ pc' = "ExecutingOperation"
  /\ outstanding' = HandedOver(outstanding)
  /\ UNCHANGED <<fs, fs0, last, dryRun, toolOutput, handed, mgr, thrown, nExec, turn,
                 mgrCalls, wrap, prev, repo, commit, sess, srv>>

\* processWithGemini throws: no text generated, or the request failed.
GeminiFails ==
  /\ pc = "NotStarted"
  /\ request' = InstructionRequest(dryRun)
  /\ nSent' = Inc(nSent)
  /\ thrown' = "Gemini did not return any content"
  /\ pc' = "Failed"
  /\ UNCHANGED <<fs, fs0, last, dryRun, response, toolOutput, handed, mgr, nExec, turn,
                 mgrCalls, outstanding, wrap, prev, repo, commit, sess, srv>>

CallToolDone(output) ==
  /\ toolOutput' = output
  /\ turn' = Inc(turn)
  /\ pc' = "Done"
  /\ outstanding' = Settled(outstanding)
  /\ UNCHANGED <<dryRun, response, request, handed, mgr, thrown, nSent, nExec,
                 mgrCalls>>

\* callTool ends without doing anything: unknown tool or dry run.
CallToolSkips ==
  /\ pc = "ExecutingOperation"
  /\ response.kind = "instruction"
  /\ LET route == CallToolRoute(response.instruction, dryRun)
     IN /\ route.via = NoEffect
        /\ CallToolDone([kind |-> IF route.tool = "dry" THEN "DryRun" ELSE "Error",
                         result |-> Ok("None", <<>>), message |-> route.tool])
  /\ UNCHANGED <<fs, fs0, last, wrap, prev, repo, commit, sess, srv>>

\* What callTool returns of a server method's result: the stdout field alone
\* for run_git_command, the result itself for the other tools.
CallToolReturn(tool, r) ==
  IF tool = "run_git_command" THEN [r EXCEPT !.form = "Text", !.payload = r.payload.stdout]
  ELSE r

\* The function the server method hands to wrapWithTimeout, for the
\* parameters of the instruction.
ServerCall(f, ins, route, exitOk) ==
  IF ins.opaque = {} THEN Completes(Dispatch(f, route.tool, route.arguments, exitOk))
  ELSE MethodBody(f, MethodOf(route.tool), OpaqueObject, OpaqueObject, <<"c">>, exitOk)

\* What callTool does with the promise of a server method: it awaits the one
\* of runGitCommand inside its try, so a rejection is caught and returned
\* as text; it returns the promise of any other method as it is, so a
\* rejection is the rejection of callTool.
CallToolThrows(tool, promise) == tool # "run_git_command" /\ promise = "rejected"

\* callTool runs a server method.
CallToolServer ==
  /\ pc = "ExecutingOperation"
  /\ response.kind = "instruction"
  /\ LET route == CallToolRoute(response.instruction, dryRun)
     IN /\ route.via = ServerMethod
        /\ \E exitOk \in BOOLEAN :
           \E body \in {ServerCall(fs, response.instruction, route, exitOk)} :
             LET promise == WrapWithTimeout(body, DEFAULT_TIMEOUT).promise
             IN /\ Perform(MethodOf(route.tool), route.arguments, body.out)
                /\ IF CallToolThrows(route.tool, promise)
                   THEN /\ pc' = "Failed"
                        /\ thrown' = body.out.result.kind
                        /\ outstanding' = Settled(outstanding)
                        /\ UNCHANGED <<dryRun, response, request, toolOutput, handed, mgr,
                                       nSent, nExec, turn, mgrCalls>>
                   ELSE CallToolDone(OutputOf(Returned(
                          IF promise = "rejected" THEN Caught(body.out.result.kind)
                          ELSE CallToolReturn(route.tool, body.out.result))))

\* callTool executes the instruction text as a shell command.
CallToolShell ==
  /\ pc = "ExecutingOperation"
  /\ response.kind = "instruction"
  /\ LET route == CallToolRoute(response.instruction, dryRun)
     IN /\ route.via = ShellCommand
        /\ \E f \in ShellEffects(fs), exitOk \in BOOLEAN :
             /\ fs' = f
             /\ last' = [op |-> "execSync", args |-> <<response.instruction.text>>,
                         result |-> IF exitOk THEN Ok("Text", <<>>)
                                    ELSE Caught("CommandFailed"),
                         calls |-> <<>>, acted |-> DOMAIN fs \ DOMAIN f,
                         spawned |-> {Spawn("MCPClient.callTool", Cwd,
                                            response.instruction.text)}]
             /\ CallToolDone(OutputOf(Returned(last'.result)))
  /\ UNCHANGED <<fs0, wrap, prev, repo, commit, sess, srv>>

NextCallTool ==
  \/ GeminiProduces \/ GeminiFails \/ CallToolSkips \/ CallToolServer \/ CallToolShell

SpecCallTool == InitCallTool /\ [][NextCallTool]_vars

\* ------------------------------------------------------------------------
\* The commit commands (runManualCommit, runAutoCommit), in both revisions
\* ------------------------------------------------------------------------
\* The repository: the changed files of the working tree that are not
\* staged, the staged files, the commits made and the commits pushed.
Files == {"f", "g"}
Repositories ==
  {[worktree |-> w, staged |-> st, commits |-> 0, pushed |-> 0] :
     w \in SUBSET Files, st \in SUBSET Files}

\* The two revisions: src/commands/git.ts and index.ts.
Revisions == {"git.ts", "index.ts"}

\* What a git command that succeeds does to the repository: "git add ."
\* stages every change, "git commit" turns the staged changes into a commit,
\* "git push" brings the remote up to the commits made; "git diff --staged"
\* and "git branch --show-current" change nothing.
GitEffect(cmd, r) ==
  CASE cmd = "add" -> [r EXCEPT !.staged = r.staged \cup r.worktree, !.worktree = {}]
    [] cmd = "commit" -> [r EXCEPT !.staged = {}, !.commits = r.commits + 1]
    [] cmd = "push" -> [r EXCEPT !.pushed = r.commits]
    [] OTHER -> r

\* execSync throws: the command failAt fails for a reason of the environment
\* (no repository, a lock, no remote), and "git commit" fails when nothing
\* is staged.
GitFails(cmd, r, failAt) == cmd = failAt \/ (cmd = "commit" /\ r.staged = {})

\* The execSync calls of a try block in order, up to the first that throws:
\* the repository they leave, the command that failed, the commands run.
RECURSIVE ExecSyncFrom(_, _, _, _)
ExecSyncFrom(cmds, r, failAt, ran) ==
  IF cmds = <<>> THEN [repo |-> r, failed |-> "none", ran |-> ran]
  ELSE IF GitFails(Head(cmds), r, failAt)
       THEN [repo |-> r, failed |-> Head(cmds), ran |-> Append(ran, Head(cmds))]
  ELSE ExecSyncFrom(Tail(cmds), GitEffect(Head(cmds), r), failAt, Append(ran, Head(cmds)))

ExecSyncAll(cmds, r, failAt) == ExecSyncFrom(cmds, r, failAt, <<>>)

\* The commit messages given: a text, the empty string, no string at all.
Messages == {Str(<<"m">>), Str(<<>>), Undefined}

\* A test that lets the empty string pass.
MessageIsNoString(m) == m.type # "string"

\* !commitMessage || typeof commitMessage !== "string"
MessageRejected(m) == m.chars = <<>> \/ m.type # "string"

MessageRequired == "Commit message is required and must be a string"

\* git refuses a commit with an empty message.
FailsAt(message, failAt) ==
  IF message.chars = <<>> /\ failAt # "add" THEN "commit" ELSE failAt

\* The commands of a real run whatever skipPush is.
ManualCommandsWithPush(rev, dry, skipPush) ==
  IF dry THEN <<"add">> ELSE <<"add", "commit", "branch", "push">>

\* The git commands of runManualCommit.  index.ts has no skipPush.
ManualCommands(rev, dry, skipPush) ==
  IF dry THEN <<"add">>
  ELSE IF rev = "git.ts" /\ skipPush THEN <<"add", "commit">>
  ELSE <<"add", "commit", "branch", "push">>

\* runManualCommit.  git.ts: the message is tested first; both the dry run
\* and the real run catch the error, print it and throw it again.
\* index.ts: no test of the message; the dry run has no try, so the error
\* is thrown and nothing is printed; the real run catches the error, prints
\* it and returns.
runManualCommit(rev, r, message, dry, skipPush, failAt) ==
  LET run == ExecSyncAll(ManualCommands(rev, dry, skipPush), r, FailsAt(message, failAt))
      failed == run.failed # "none"
  IN IF rev = "git.ts" /\ MessageRejected(message)
     THEN [repo |-> r, failed |-> MessageRequired, printed |-> FALSE, threw |-> TRUE,
           ran |-> <<>>, manualCalled |-> TRUE]
     ELSE [repo |-> run.repo, failed |-> run.failed,
           printed |-> failed /\ (rev = "git.ts" \/ ~dry),
           threw |-> failed /\ (rev = "git.ts" \/ dry),
           ran |-> run.ran, manualCalled |-> TRUE]

\* A diff that is never taken for empty.
DiffNeverEmpty(r) == FALSE

\* !diff.trim() of the output of "git diff --staged".
DiffIsEmpty(r) == r.staged = {}

\* How runAutoCommit ends without calling runManualCommit.
AutoEnds(r, failed, printed, threw) ==
  [repo |-> r, failed |-> failed, printed |-> printed, threw |-> threw, ran |-> <<>>,
   manualCalled |-> FALSE]

InitCommit ==
  /\ fs = BaseFs
  /\ fs0 = fs
  /\ last = NoOp
  /\ pc = "NotStarted"
  /\ dryRun \in BOOLEAN
  /\ response = NoResponse
  /\ request = NoRequest
  /\ toolOutput = NoOutput
  /\ handed = NoCall
  /\ mgr = NoManager
  /\ thrown = "none"
  /\ nSent = 0
  /\ nExec = 0
  /\ turn = 0
  /\ mgrCalls = <<>>
  /\ outstanding = NoneOutstanding
  /\ wrap = NoWrap
  /\ prev = NoPrev
  /\ repo \in Repositories
  /\ commit = NoCommit
  /\ sess = NoSessions
  /\ srv = NoServer

\* How a commit command ends, given what it did, for the record c of the
\* command.
CommitEnds(c, out) ==
  /\ repo' = out.repo
  /\ commit' = [c EXCEPT !.failed = out.failed, !.printed = out.printed,
                         !.ran = out.ran, !.manualCalled = out.manualCalled]
  /\ pc' = IF out.threw THEN "Failed" ELSE "Done"
  /\ thrown' = IF out.threw THEN out.failed ELSE "none"

\* gfts commit -m <message> [--dry-run]: runManualCommit from start to end.
ManualCommit ==
  /\ pc = "NotStarted"
  /\ \E rev \in Revisions, skipPush \in BOOLEAN, message \in Messages,
        failAt \in {"none", "add", "commit", "branch", "push"} :
       CommitEnds([NoCommit EXCEPT !.rev = rev, !.command = "manual",
                                   !.skipPush = skipPush, !.before = repo,
                                   !.message = message],
                  runManualCommit(rev, repo, message, dryRun, skipPush, failAt))
  /\ UNCHANGED <<fs, fs0, last, dryRun, response, request, toolOutput, handed, mgr,
                 nSent, nExec, turn, mgrCalls, outstanding, wrap, prev, sess, srv>>

\* gfts auto-commit [--dry-run]: runAutoCommit up to the await of
\* generateContent: "git add .", "git diff --staged", return when the diff
\* is empty.  git.ts catches an error, prints it and throws it again;
\* index.ts has no try.
AutoCommitStart ==
  /\ pc = "NotStarted"
  /\ \E rev \in Revisions, skipPush \in BOOLEAN, failAt \in {"none", "add", "diff"} :
       LET c == [NoCommit EXCEPT !.rev = rev, !.command = "auto",
                                 !.skipPush = skipPush, !.before = repo]
           run == ExecSyncAll(<<"add", "diff">>, repo, failAt)
       IN IF run.failed # "none"
          THEN /\ CommitEnds(c, AutoEnds(run.repo, run.failed, rev = "git.ts", TRUE))
               /\ UNCHANGED <<request, nSent>>
          ELSE IF DiffIsEmpty(run.repo)
          THEN /\ CommitEnds(c, AutoEnds(run.repo, "none", FALSE, FALSE))
               /\ UNCHANGED <<request, nSent>>
          ELSE /\ repo' = run.repo
               /\ commit' = c
               /\ pc' = "AwaitingModel"
               /\ request' = [contents |-> <<[role |-> "user", kind |-> "text",
                                              text |-> "prompt with diff"]>>]
               /\ nSent' = Inc(nSent)
               /\ UNCHANGED thrown
  /\ UNCHANGED <<fs, fs0, last, dryRun, response, toolOutput, handed, mgr,
                 nExec, turn, mgrCalls, outstanding, wrap, prev, sess, srv>>

\* generateContent settles: it rejects, or the response has no text (the
\* function throws "Failed to generate commit message"), or it has a text:
\* the text without code fences, trimmed, is the commit message (the empty
\* string for a text of fences or blanks) and runManualCommit runs.  In
\* git.ts the catch of runAutoCommit prints every error and throws it again.
AutoCommitGenerated ==
  /\ pc = "AwaitingModel"
  /\ commit.command = "auto"
  /\ \E answer \in {"rejected", "no text", "message", "blank text"},
        failAt \in {"none", "add", "commit", "branch", "push"} :
       IF answer \in {"rejected", "no text"}
       THEN CommitEnds(commit, AutoEnds(repo, answer, commit.rev = "git.ts", TRUE))
       ELSE LET message == IF answer = "message" THEN Str(<<"m">>) ELSE Str(<<>>)
                out == runManualCommit(commit.rev, repo, message, dryRun,
                                       commit.skipPush, failAt)
            IN CommitEnds([commit EXCEPT !.message = message],
                          [out EXCEPT !.printed = @ \/ (out.threw /\ commit.rev = "git.ts")])
  /\ UNCHANGED <<fs, fs0, last, dryRun, response, request, toolOutput, handed, mgr,
                 nSent, nExec, turn, mgrCalls, outstanding, wrap, prev, sess, srv>>

NextCommit == ManualCommit \/ AutoCommitStart \/ AutoCommitGenerated

SpecCommit == InitCommit /\ [][NextCommit]_vars

\* ------------------------------------------------------------------------
\* Sessions of one process on the shared McpManager
\* ------------------------------------------------------------------------
\* mcpClient is the one McpManager instance of the module.  Two calls of
\* runGenerativeGitFlow whose awaits interleave use it together.  Each gives
\* initializeClient the process.cwd() of the moment of its call.
Sessions == {1, 2}
SessionRoots == {Cwd, <<"/", "w", "x">>}

NewSession(root) == [pc |-> "NotStarted", root |-> root, client |-> 0, found |-> "none",
                     used |-> "null"]

InitManager ==
  /\ fs = BaseFs
  /\ fs0 = fs
  /\ last = NoOp
  /\ pc = "NotStarted"
  /\ dryRun = FALSE
  /\ response = NoResponse
  /\ request = NoRequest
  /\ toolOutput = NoOutput
  /\ handed = NoCall
  /\ mgr = NoManager
  /\ thrown = "none"
  /\ nSent = 0
  /\ nExec = 0
  /\ turn = 0
  /\ mgrCalls = <<>>
  /\ outstanding = NoneOutstanding
  /\ wrap = NoWrap
  /\ prev = NoPrev
  /\ repo = CleanRepo
  /\ commit = NoCommit
  /\ \E r1, r2 \in SessionRoots :
        sess = [NoSessions EXCEPT !.of = (1 :> NewSession(r1)) @@ (2 :> NewSession(r2))]
  /\ srv = NoServer

ManagerRest ==
  UNCHANGED <<fs, fs0, pc, dryRun, response, request, toolOutput, handed, thrown, nSent,
              nExec, turn, mgrCalls, outstanding, wrap, prev, repo, commit, srv>>

\* await mcpClient.initializeClient(process.cwd()): with a client at hand
\* it is returned at once; otherwise server and client are constructed and
\* the call awaits the connect.
SessionInitialize(s) ==
  /\ sess.of[s].pc = "NotStarted"
  /\ LET m == InitializeClient(mgr, sess.of[s].root)
         created == mgr.client = "null" \/ m # mgr
         made == IF created THEN sess.made + 1 ELSE sess.made
     IN /\ mgr' = m
        /\ sess' = [sess EXCEPT !.made = made,
                                !.of[s].client = made,
                                !.of[s].pc = IF created THEN "Connecting" ELSE "Running"]
  /\ UNCHANGED last
  /\ ManagerRest

\* The connect initializeClient awaits ends.  A rejection leaves the session
\* before its try: closeClient is not called.
ConnectEnds(s) ==
  /\ sess.of[s].pc = "Connecting"
  /\ \/ /\ sess' = [sess EXCEPT !.connects = @ + 1, !.of[s].pc = "Running"]
        /\ UNCHANGED mgr
     \/ /\ mgr' \in AfterFailedConnect(mgr)
        /\ sess' = [sess EXCEPT !.of[s].pc = "Failed",
                                !.cleared = IF mgr' = mgr THEN @ ELSE "handleClose"]
  /\ UNCHANGED last
  /\ ManagerRest

\* mcpClient.executeTool in the loop: without a client it throws "MCP Client
\* not initialized", which the loop turns into the tool output; with one,
\* the manager's server runs the operation.
SessionExecuteTool(s) ==
  /\ sess.of[s].pc = "Running"
  /\ IF mgr.client = "null"
     THEN /\ sess' = [sess EXCEPT !.of[s].found = "MCP Client not initialized",
                                  !.of[s].used = "null"]
          /\ UNCHANGED last
     ELSE LET out == getCurrentDirectory(fs)
          IN /\ sess' = [sess EXCEPT !.of[s].found = "client", !.of[s].used = mgr.server,
                                     !.of[s].pc = "Executing"]
             /\ last' = [op |-> "getCurrentDirectory", args |-> <<>>, result |-> out.result,
                         calls |-> out.calls, acted |-> out.acted, spawned |-> out.spawned]
  /\ UNCHANGED mgr
  /\ ManagerRest

\* The operation's promise settles and the loop goes on.
SessionToolReturns(s) ==
  /\ sess.of[s].pc = "Executing"
  /\ sess' = [sess EXCEPT !.of[s].pc = "Running"]
  /\ last' = NoOp
  /\ UNCHANGED mgr
  /\ ManagerRest

\* finally { await mcpClient.closeClient() }: client.close() may reject,
\* and then nothing is cleared.
SessionClose(s) ==
  /\ sess.of[s].pc = "Running"
  /\ \/ /\ mgr' = CloseClient(mgr)
        /\ sess' = [sess EXCEPT !.of[s].pc = "Done",
                                !.cleared = IF mgr.client # "null" THEN "closeClient" ELSE @,
                                !.closer = IF mgr.client # "null" THEN s ELSE @]
     \/ /\ mgr.client # "null"
        /\ UNCHANGED mgr
        /\ sess' = [sess EXCEPT !.of[s].pc = "Failed"]
  /\ UNCHANGED last
  /\ ManagerRest

\* handleClose, the close callback given to connect.
HandleClose ==
  /\ mgr.client # "null"
  /\ mgr' = NoManager
  /\ sess' = [sess EXCEPT !.cleared = "handleClose"]
  /\ UNCHANGED last
  /\ ManagerRest

NextManager ==
  \/ \E s \in Sessions : SessionInitialize(s)
  \/ \E s \in Sessions : ConnectEnds(s)
  \/ \E s \in Sessions : SessionExecuteTool(s)
  \/ \E s \in Sessions : SessionToolReturns(s)
  \/ \E s \in Sessions : SessionClose(s)
  \/ HandleClose

SpecManager == InitManager /\ [][NextManager]_vars

\* ------------------------------------------------------------------------
\* A server constructed for a directory, in both revisions of the class
\* ------------------------------------------------------------------------
\* part_004 is the earlier, synchronous class; part_005 the later one.
ServerRevisions == {"part_004", "part_005"}
ProcessDirectories == {Cwd, <<"/", "w", "x">>, <<"/", "o">>}
ConstructorArguments == PathInputs \cup {Cwd, <<"/", "w", "/", "a", "/">>}

\* constructor(workingDirectory): this.workingDirectory =
\* path.resolve(workingDirectory), resolved against process.cwd().
Constructor(rev, workingDirectory, cwd) ==
  [rev |-> rev, arg |-> workingDirectory, cwd |-> cwd,
   workingDirectory |-> PathResolve(cwd, workingDirectory)]

\* getCurrentDirectory(): part_005 returns this.workingDirectory, part_004
\* returns process.cwd().
GetCurrentDirectoryOf(server) ==
  IF server.rev = "part_004" THEN server.cwd ELSE server.workingDirectory

InitConstruct ==
  /\ fs = BaseFs
  /\ fs0 = fs
  /\ last = NoOp
  /\ pc = "NotStarted"
  /\ dryRun = FALSE
  /\ LoopAtRest

ConstructRest ==
  UNCHANGED <<fs, fs0, pc, dryRun, response, request, toolOutput, handed, mgr, thrown,
              nSent, nExec, turn, mgrCalls, outstanding, wrap, prev, repo, commit, sess>>

\* new GftsServer(workingDirectory)
Construct ==
  /\ srv = NoServer
  /\ \E rev \in ServerRevisions, a \in ConstructorArguments, cwd \in ProcessDirectories :
       srv' = Constructor(rev, a, cwd)
  /\ UNCHANGED last
  /\ ConstructRest

\* process.chdir(directory) after the server was constructed.
ProcessChdir ==
  /\ srv # NoServer
  /\ \E d \in ProcessDirectories : d # srv.cwd /\ srv' = [srv EXCEPT !.cwd = d]
  /\ UNCHANGED last
  /\ ConstructRest

\* server.getCurrentDirectory()
CallGetCurrentDirectory ==
  /\ srv # NoServer
  /\ last' = [NoOp EXCEPT !.op = "getCurrentDirectory",
                          !.result = Ok("Text", GetCurrentDirectoryOf(srv))]
  /\ UNCHANGED srv
  /\ ConstructRest

NextConstruct == Construct \/ ProcessChdir \/ CallGetCurrentDirectory

SpecConstruct == InitConstruct /\ [][NextConstruct]_vars

\* ------------------------------------------------------------------------
\* Properties
\* ------------------------------------------------------------------------
PathOps == {"listFiles", "readFile", "writeFile", "appendFile", "moveFile",
            "deleteFile", "createDirectory", "deleteDirectory",
            "listDirectoryTree", "readDirectoryFiles"}

\* The candidate resolves, by path components, to neither the working
\* directory nor a descendant of it.
OutsideRoot(candidate) == ~Inside(Split(PathResolve(WorkingRoot, candidate)))

\* The strings the latest operation handed to getSafePath.
GuardedArgs ==
  IF last.op = "moveFile" THEN {last.args[1], PathDirname(last.args[2])}
  ELSE IF last.op \in PathOps THEN {last.args[1]}
  ELSE {}

RenameCalls == {i \in DOMAIN last.calls : last.calls[i].fn = "renameSync"}

\* C1: an operation given a path that resolves outside the working directory
\* (by components: `..`, an absolute override, a sibling sharing the root's
\* string as a prefix) answers access denied and makes no fs call.
C1_OutsidePathDenied ==
  (last.op \in PathOps /\ \E a \in GuardedArgs : OutsideRoot(a))
     => /\ last.result.kind = "AccessDenied"
        /\ last.calls = <<>>
        /\ last.acted = {}

\* C2: an operation whose path arguments all resolve, as strings, into the
\* working directory acts only on locations that are canonically (symbolic
\* links followed) inside it; a path through a link that leaves the working
\* directory is denied.
C2_CanonicalInside ==
  (last.op \in PathOps /\ \A a \in GuardedArgs : ~OutsideRoot(a))
     => \A q \in last.acted : Inside(q)

\* C3: the destination moveFile passes to renameSync is the working
\* directory or below it, or the call is denied and renames nothing (stated
\* for destinations whose directory part getSafePath rightly accepts).
C3_MoveDestinationInside ==
  (last.op = "moveFile" /\ \A a \in GuardedArgs : ~OutsideRoot(a))
     => \/ /\ RenameCalls # {}
           /\ \A i \in RenameCalls : Inside(Split(last.calls[i].paths[2]))
        \/ /\ last.result.kind = "AccessDenied"
           /\ RenameCalls = {}

\* C4: the working_directory handed to the transport is the session's
\* working directory, whatever the model put in its arguments.
C4_WorkingDirectoryInjected ==
  pc = "ExecutingOperation"
     => /\ handed.arguments["working_directory"] = WorkingRoot
        /\ handed.arguments["working_directory"] = mgr.server

\* A call is pending whose model arguments carried another working directory.
C4_Witness ==
  /\ pc = "ExecutingOperation"
  /\ HasKey(response.args, "working_directory")
  /\ response.args["working_directory"] = PAbsolute

\* C5: outside dry run, whatever callTool does goes through a GftsServer
\* method; the only processes spawned are the server's git commands.
C5_OnlyServerEffects ==
  /\ last.op # "execSync"
  /\ \A sp \in last.spawned : sp.by = "GftsServer.runGitCommand"

ToolResultParts(req) ==
  {i \in DOMAIN req.contents : req.contents[i].kind = "toolResult"}

C7_RequestCarriesResults ==
  (pc = "AwaitingModel" /\ turn < MaxTurns)
     => Cardinality(ToolResultParts(request)) = turn

\* C8: every session comes to an end.
C8_SessionTerminates == <>(pc \in {"Done", "Failed"})

\* C9: once a response without an operation request has been received,
\* nothing more is sent to the completion service or to the server.
C9_DoneIsTerminal ==
  [][(response.kind \in {"text", "malformed"})
       => /\ nSent' = nSent
          /\ nExec' = nExec
          /\ turn' = turn
          /\ handed' = handed
          /\ fs' = fs
          /\ pc' = pc]_vars

\* The session is done after at least one executed operation.
C9_Witness ==
  /\ pc = "Done"
  /\ response.kind = "text"
  /\ nExec > 0
  /\ mgr = NoManager

\* C10: a request naming no declared tool is not handed to the transport.
C10_UnknownToolNotForwarded ==
  handed.name # "none" => handed.name \in DeclaredTools

\* The errors the loop makes fatal on purpose: a response of the wrong
\* shape, a call without a name, a failure of the completion service or of
\* the connect.
FatalErrors ==
  {"Failed to generate valid content", "Invalid function call from model",
   "Invalid tool name", "UpstreamFailure", "connect failed"}

\* C11: a failed operation call does not end the session; it becomes the
\* turn's result and the next request is sent.  A session that has failed
\* has failed for one of the fatal errors.
C11_OperationFailureRecoverable ==
  pc = "Failed" => thrown \in FatalErrors

\* C12: at every turn a response of the wrong shape (no candidates or parts,
\* or a function call without a name) ends the session with an error; the
\* session never completes on it.
C12_MalformedResponseFatal ==
  (response.kind = "malformed" \/ (response.kind = "call" /\ response.name = ""))
     => pc = "Failed"

\* C13: a wrapWithTimeout call whose operation has not completed when
\* timeoutMs has elapsed is settled (rejected with the timeout error): no
\* call stays pending forever.
C13_TimeoutReturnsControl ==
  (wrap.promise = "pending") ~> (wrap.promise \in {"resolved", "rejected"})

\* C14: a requested operation is executed once: the executeTool invocations
\* never outnumber the operations requested, and outside dry run there is
\* one invocation for each turn completed.
C14_ExecutedExactlyOnce ==
  /\ pc = "ExecutingOperation" => nExec <= turn + 1
  /\ pc # "ExecutingOperation" => nExec <= turn
  /\ (pc # "ExecutingOperation" /\ ~dryRun) => nExec = turn

\* C15: when runGenerativeGitFlow has ended after initializeClient was
\* started, closeClient has been called and the manager holds neither a
\* client nor a server.
C15_ClientReleasedOnExit ==
  (pc \in {"Done", "Failed"} /\ mgrCalls # <<>>)
     => /\ Last(mgrCalls) = "closeClient"
        /\ mgr = NoManager

\* C16: at most one request is outstanding at any time, to the completion
\* service or to the server, never both: an operation is outstanding only
\* while the loop awaits executeTool, a completion request only while it
\* awaits generateContent.
C16_OneOutstandingRequest ==
  /\ outstanding.model + outstanding.tool <= 1
  /\ outstanding.tool = 1 <=> pc = "ExecutingOperation"
  /\ outstanding.model = 1 <=> pc \in {"Initializing", "AwaitingModel"}

\* A second operation is being executed, after the first one's result and
\* the completion response that followed it.
C16_Witness ==
  /\ pc = "ExecutingOperation"
  /\ turn > 0
  /\ nSent > 1
  /\ outstanding.tool = 1

\* C17: readFile(p) right after a successful writeFile(p, c) returns
\* exactly c.
C17_WriteReadRoundTrip ==
  (prev.call.op = "writeFile" /\ prev.call.result.ok /\ last.op = "readFile")
     => /\ last.result.ok
        /\ last.result.form = "Content"
        /\ last.result.payload = prev.call.args[2]

\* C18: createDirectory(d) right after a successful createDirectory(d)
\* succeeds too and leaves the file system as the first call left it, with
\* d a directory; and a first call fails only when refused by the guard or
\* stopped by something on d's path that is not a directory.
C18_CreateDirectoryIdempotent ==
  /\ (prev.call.op = "createDirectory" /\ prev.call.result.ok
         /\ last.op = "createDirectory")
       => /\ last.args = prev.call.args
          /\ last.result.ok
          /\ fs = prev.fs
          /\ StatIsDirectory(fs, Split(GetSafePath(last.args[1]).path))
  /\ (last.op = "createDirectory" /\ ~last.result.ok)
       => last.result.kind \in {"AccessDenied", "EEXIST", "ENOTDIR"}

\* The second call follows a first one that made a directory.
C18_Witness ==
  /\ prev.call.op = "createDirectory"
  /\ prev.call.result.ok
  /\ prev.call.acted # {}
  /\ last.op = "createDirectory"
  /\ last.result.ok

\* C19: after a successful deleteDirectory(d), d and what was below it are
\* gone: listFiles(d) answers that the path does not exist and readFile of
\* a file below d that the file is missing.
C19_DeletedDirectoryNotFound ==
  (prev.call.op = "deleteDirectory" /\ prev.call.result.ok)
     => /\ ~ExistsSync(fs, Split(GetSafePath(prev.call.args[1]).path))
        /\ last.op = "listFiles" => last.result.kind = "NotFound"
        /\ last.op = "readFile" => last.result.kind = "NotAFile"

\* listFiles(d) follows the deletion of a directory that held something.
C19_Witness ==
  /\ prev.call.op = "deleteDirectory"
  /\ prev.call.result.ok
  /\ Cardinality(prev.call.acted) > 1
  /\ last.op = "listFiles"
  /\ last.result.kind = "NotFound"

\* C20: an operation refused by the path guard answers access denied and
\* leaves the whole file system as it was: it makes no fs call at all.
C20_DeniedLeavesFileSystem ==
  [][(last.op = "none" /\ last'.op \in PathOps
        /\ last'.result.kind = "AccessDenied")
       => /\ fs' = fs
          /\ last'.calls = <<>>
          /\ last'.acted = {}]_vars

\* moveFile of an existing file to a destination outside the working
\* directory has been refused.
C20_Witness ==
  /\ last.op = "moveFile"
  /\ last.result.kind = "AccessDenied"
  /\ last.args[1] = PA
  /\ IsFile(fs, Append(WSegs, <<"a">>))
  /\ OutsideRoot(PathDirname(last.args[2]))

\* C21: no server method raises past its own boundary: whatever the operation,
\* the arguments and the file system, the promise the method returns is
\* never rejected (the failure is in the resolved value).
C21_NeverRaises == wrap.promise # "rejected"

\* C22: runGitCommand returns the three fields stdout, stderr and
\* return_code for every command; when the command succeeded return_code is
\* 0 and stderr is empty, when it failed return_code is not 0 and stderr
\* holds the error text.
C22_GitResultFields ==
  last.op = "runGitCommand" =>
    /\ DOMAIN last.result.payload = {"stdout", "stderr", "return_code"}
    /\ last.result.ok =>
         last.result.payload.return_code = 0 /\ last.result.payload.stderr = ""
    /\ ~last.result.ok =>
         last.result.payload.return_code # 0 /\ last.result.payload.stderr # ""

\* C23: in every step in which a git command runs and fails, the result of
\* the turn holds the command's error text and its exit indicator, which is
\* not 0, and the session does not end in failure.
C23_GitFailureReachesLoop ==
  [][(last' # last /\ last'.op = "runGitCommand" /\ ~last'.result.ok
        /\ toolOutput' # toolOutput) =>
       /\ toolOutput'.result.form = "GitResult"
       /\ toolOutput'.result.payload.stderr = last'.result.payload.stderr
       /\ toolOutput'.result.payload.stderr # ""
       /\ toolOutput'.result.payload.return_code # 0
       /\ pc' # "Failed"]_vars

\* C24: the dispatch side classifies a call as the server produced it: in
\* every step in which the server ran an operation for executeTool, the
\* call is reported as failed exactly when the operation's result is a
\* failure.  (A failed git command is left aside: its three-field result is
\* data by contract.)
C24_ClassifiedAsProduced ==
  [][(pc = "ExecutingOperation" /\ last' # last
        /\ last'.op \notin {"none", "runGitCommand"}
        /\ toolOutput'.kind \in {"Result", "Error"}) =>
       (toolOutput'.kind = "Error" <=> ~last'.result.ok)]_vars

\* C25: dry run is invisible to the completion service: every request of a
\* session is the request that a session without dry run sends at that
\* point.
C25_DryRunInvisible == request # NoRequest => request = InstructionRequest(FALSE)

\* C26: the catalogue is closed with one handler per entry: once callTool
\* has processed, outside dry run, a JSON instruction that names a declared
\* tool and has parameters, the operation performed is the server method of
\* that tool with the given parameters, and nothing else was performed.
C26_OneHandlerPerTool ==
  (pc = "Done" /\ ~dryRun /\ response.kind = "instruction"
     /\ response.instruction.hasParameters
     /\ response.instruction.tool \in DeclaredTools) =>
    /\ response.instruction.tool \in JsonCases
    /\ last.op = MethodOf(response.instruction.tool)
    /\ last.args = response.instruction.parameters
    /\ \A sp \in last.spawned : sp.by = "GftsServer.runGitCommand"

\* C27: with --dry-run a commit command changes nothing in the repository:
\* once it has ended, no commit was made, nothing was pushed and the staged
\* files are those staged before.
C27_DryRunCommitChangesNothing ==
  (dryRun /\ commit.command # "none" /\ pc \in {"Done", "Failed"}) =>
    /\ repo.commits = commit.before.commits
    /\ repo.pushed = commit.before.pushed
    /\ repo.staged = commit.before.staged

\* C28: a failed step of a commit command is reported: the command has
\* printed the error and has thrown, it has not ended as if it had
\* succeeded.
C28_FatalErrorReported ==
  (commit.failed # "none" /\ pc \in {"Done", "Failed"}) =>
    pc = "Failed" /\ commit.printed

\* The regular files directly in directory d; the three parts of what
\* readDirectoryFiles returns for a directory inside the working directory.
DirectFiles(f, d) == {e \in Children(f, d) : IsFile(f, e)}
ReadsDirectoryInside ==
  /\ last.op = "readDirectoryFiles"
  /\ ~GetSafePath(last.args[1]).denied
  /\ IsDir(fs, Split(GetSafePath(last.args[1]).path))
ExactlyTheRegularFiles ==
  ReadsDirectoryInside =>
    LET d == Split(GetSafePath(last.args[1]).path)
    IN /\ last.result.ok
       /\ DirectFiles(fs, d) # {} =>
            /\ last.result.form = "Mapping"
            /\ last.result.payload =
                 [n \in {Last(e) : e \in DirectFiles(fs, d)} |->
                    Utf8Decode(fs[Append(d, n)].content)]
InfoWhenNoFile ==
  ReadsDirectoryInside =>
    LET d == Split(GetSafePath(last.args[1]).path)
    IN DirectFiles(fs, d) = {} =>
         last.result.ok /\ last.result.form = "Info" /\ last.result.payload = InfoObject
MarkerDistinguishable ==
  (last.op = "readDirectoryFiles" /\ last.result.form = "Mapping") =>
     /\ DOMAIN last.result.payload # {}
     /\ last.result.payload # InfoObject

\* C29: readDirectoryFiles of a directory inside the working directory
\* returns the mapping from name to content of exactly the regular files
\* directly in it, and the info object, never an empty mapping, when there
\* is none; a mapping of files is never equal to the info object.
C29_DirectoryFiles == ExactlyTheRegularFiles /\ InfoWhenNoFile /\ MarkerDistinguishable

\* C30: listDirectoryTree comes to an end on every file system, one with
\* symbolic links that lead back to a directory above them included: no
\* descent path of buildTree holds a canonical directory twice, and the
\* traversal does not nest without bound.
C30_TreeTerminates ==
  last.op = "listDirectoryTree" =>
    /\ last.result.kind # "RangeError"
    /\ last.result.form = "Tree" =>
         \A path \in DescentPaths(fs, <<Canon(fs, Split(GetSafePath(last.args[1]).path))>>) :
            ~HasRepeat(path)

\* A tree was listed from a directory whose subdirectory holds a link back
\* to it, and the subdirectory was descended into.
C30_Witness ==
  /\ last.op = "listDirectoryTree"
  /\ last.result.form = "Tree"
  /\ \E k \in DOMAIN fs :
        /\ IsLink(fs, k)
        /\ Front(k) \in last.acted
        /\ fs[k].target \in last.acted
        /\ IsPrefix(fs[k].target, Front(k)) /\ fs[k].target # Front(k)

\* The directory entry a line of a tree stands for: the start directory for
\* the first line, otherwise the name of the line below the entry of the
\* nearest line before it that is indented by 4 less.
RECURSIVE ParentLine(_, _, _)
ParentLine(lines, i, j) ==
  IF j = 0 THEN 0
  ELSE IF lines[j].indent = lines[i].indent - 4 THEN j
  ELSE ParentLine(lines, i, j - 1)

RECURSIVE EntryOfLine(_, _, _)
EntryOfLine(lines, start, i) ==
  IF i = 1 THEN start
  ELSE LET up == ParentLine(lines, i, i - 1)
       IN IF up = 0 THEN <<"?">>
          ELSE Append(EntryOfLine(lines, start, up), lines[i].name)

TreeStart == Canon(fs, Split(GetSafePath(last.args[1]).path))

\* C31: the tree listDirectoryTree returns is the pre-order listing of
\* everything below the start directory: its first line is the start
\* directory at indent 0; the lines stand one to one for the entries of
\* the subtree, each below its parent's line and indented by 4 per level;
\* a line is marked as a directory (ends with "/") exactly when its entry
\* is one.
C31_PreOrderTree ==
  (last.op = "listDirectoryTree" /\ last.result.form = "Tree") =>
    LET lines == last.result.payload
        entry(i) == EntryOfLine(lines, TreeStart, i)
    IN /\ Len(lines) >= 1
       /\ lines[1] = TreeLine(0, PathBasename(GetSafePath(last.args[1]).path), TRUE)
       /\ \A i \in DOMAIN lines :
            /\ entry(i) \in Subtree(fs, TreeStart)
            /\ lines[i].indent = 4 * (Len(entry(i)) - Len(TreeStart))
            /\ lines[i].dir = IsDir(fs, entry(i))
            /\ \A j \in DOMAIN lines : entry(i) = entry(j) => i = j
       /\ \A q \in Subtree(fs, TreeStart) : \E i \in DOMAIN lines : entry(i) = q

\* A tree with a file inside a subdirectory, and an entry of the start
\* directory listed after that subdirectory's lines.
C31_Witness ==
  /\ last.op = "listDirectoryTree"
  /\ last.result.form = "Tree"
  /\ \E i, j \in DOMAIN last.result.payload :
        /\ i < j
        /\ last.result.payload[i].indent = 8
        /\ last.result.payload[j].indent = 4

\* C32: two interleaved sessions do not interfere through the manager: a
\* session between its initializeClient and its closeClient finds a client
\* whose server has the session's own working directory, and the client it
\* uses is not cleared by the other session's closeClient.
C32_SessionsDoNotInterfere ==
  \A s \in Sessions :
     sess.of[s].pc \in {"Running", "Executing"} =>
       /\ mgr.client # "null" => mgr.server = PathResolve(Cwd, sess.of[s].root)
       /\ mgr.client = "null" => ~(sess.cleared = "closeClient" /\ sess.closer # s)

\* C38: the manager's client is null exactly when its server is null.
C38_ClientAndServerTogether == (mgr.client = "null") <=> (mgr.server = "null")

\* A connect failed part-way and left the manager as initializeClient had
\* set it; and the close callback has cleared a manager.
C38_Witness ==
  /\ \E s \in Sessions : sess.of[s].pc = "Failed"
  /\ mgr.client # "null"
  /\ sess.made >= 2
  /\ sess.cleared = "handleClose"

\* C39: initializeClient on a manager that has a client changes nothing: it
\* returns that client, constructs no server and does not connect, and the
\* server's working directory stays; executeTool on a manager without a
\* client throws "MCP Client not initialized" and no server operation runs.
C39_InitializeIdempotent ==
  [][\A s \in Sessions :
       /\ (sess.of[s].pc = "NotStarted" /\ sess'.of[s].pc # "NotStarted"
             /\ mgr.client # "null") =>
            /\ mgr' = mgr
            /\ sess'.made = sess.made /\ sess'.connects = sess.connects
            /\ sess'.of[s].client = sess.made
            /\ sess'.of[s].pc = "Running"
       /\ (sess.of[s].pc = "Running" /\ mgr.client = "null"
             /\ sess'.of[s] # sess.of[s] /\ sess'.of[s].pc \notin {"Done", "Failed"}) =>
            /\ sess'.of[s].found = "MCP Client not initialized"
            /\ last' = last /\ mgr' = mgr]_vars

\* A session was handed the client another session made for a different
\* directory; and a session's executeTool found no client after a close.
C39_Witness ==
  \E s, t \in Sessions :
     /\ s # t
     /\ sess.of[s].pc = "Running" /\ sess.of[t].pc = "Running"
     /\ sess.of[s].client = sess.of[t].client
     /\ sess.of[s].root # sess.of[t].root
     /\ mgr.client # "null"

\* C33: callTool never throws: whatever goes wrong while the instruction is
\* parsed, dispatched or executed comes back as the returned text, so the
\* only error the flow around it can end with is that of the generation.
C33_CallToolNeverThrows == thrown \in {"none", "Gemini did not return any content"}

CommandEnded == pc \in {"Done", "Failed"}
EmptyOrNoString(m) == m.type # "string" \/ m.chars = <<>>
IsPrefixOf(a, b) == Len(a) <= Len(b) /\ SubSeq(b, 1, Len(a)) = a

\* C34: a real run of runManualCommit (src/commands/git.ts, commit.ts) runs
\* its git commands in the order add, commit, branch, push: each only after
\* the one before it succeeded, the push only when skipPush is false; the
\* command that fails is the last one run and its error is thrown again.
C34_StageCommitPush ==
  (CommandEnded /\ commit.rev = "git.ts" /\ commit.command = "manual" /\ ~dryRun
     /\ ~EmptyOrNoString(commit.message)) =>
    /\ IsPrefixOf(commit.ran, <<"add", "commit", "branch", "push">>)
    /\ commit.skipPush => IsPrefixOf(commit.ran, <<"add", "commit">>)
    /\ commit.failed # "none" =>
         /\ commit.ran # <<>> /\ commit.ran[Len(commit.ran)] = commit.failed
         /\ pc = "Failed" /\ thrown = commit.failed
    /\ commit.failed = "none" =>
         /\ commit.ran = IF commit.skipPush THEN <<"add", "commit">>
                         ELSE <<"add", "commit", "branch", "push">>
         /\ pc = "Done"
         /\ repo.commits = commit.before.commits + 1
         /\ repo.pushed = IF commit.skipPush THEN commit.before.pushed ELSE repo.commits

\* A real run with skipPush that committed and did not push.
C34_Witness ==
  /\ pc = "Done" /\ commit.rev = "git.ts" /\ commit.command = "manual" /\ ~dryRun
  /\ commit.skipPush
  /\ commit.ran = <<"add", "commit">>
  /\ repo.commits = 1 /\ repo.pushed = 0

\* C35: runAutoCommit that finds no staged difference after staging returns
\* without a request to the completion service, without calling
\* runManualCommit, without a commit or a push; when the response has no
\* text it throws without calling runManualCommit.
C35_AutoCommitStops ==
  (CommandEnded /\ commit.command = "auto") =>
    /\ (commit.failed = "none" /\ commit.before.worktree \cup commit.before.staged = {}) =>
         /\ pc = "Done"
         /\ nSent = 0 /\ request = NoRequest
         /\ ~commit.manualCalled
         /\ repo.commits = commit.before.commits /\ repo.pushed = commit.before.pushed
    /\ commit.failed = "no text" =>
         /\ pc = "Failed"
         /\ ~commit.manualCalled /\ commit.ran = <<>>
         /\ repo.commits = commit.before.commits /\ repo.pushed = commit.before.pushed

\* runAutoCommit returned on a repository without any change.
C35_Witness ==
  /\ pc = "Done" /\ commit.command = "auto" /\ commit.failed = "none"
  /\ commit.before.worktree = {} /\ commit.before.staged = {}
  /\ nSent = 0

\* C36: runManualCommit (src/commands/git.ts, commit.ts) given an empty
\* message or one that is no string throws "Commit message is required and
\* must be a string" before any git command, in a dry run as in a real
\* run, and the repository stays as it was.
C36_MessageRequired ==
  (CommandEnded /\ commit.rev = "git.ts" /\ commit.command = "manual"
     /\ EmptyOrNoString(commit.message)) =>
    /\ pc = "Failed"
    /\ thrown = MessageRequired
    /\ commit.ran = <<>>
    /\ repo = commit.before

\* A dry run with the empty string as message, on a repository with a
\* change to stage.
C36_Witness ==
  /\ pc = "Failed" /\ commit.rev = "git.ts" /\ commit.command = "manual"
  /\ dryRun
  /\ commit.message = Str(<<>>)
  /\ thrown = MessageRequired
  /\ commit.before.worktree # {}

\* C37: the working directory itself outlasts every sequence of
\* operations: it exists as a directory at the same path.
C37_WorkingRootStays == IsDir(fs, RootSegs)

\* C40: getCurrentDirectory returns the directory the server was
\* constructed with, in its resolved absolute form, in both revisions and
\* wherever the process stands.
C40_ReturnsWorkingRoot ==
  (last.op = "getCurrentDirectory" /\ srv # NoServer) =>
     last.result.payload = srv.workingDirectory
====
